---- MODULE Spec2Model ----
(***************************************************************************)
(* A model of the optimization testing engine of tuning-buddy:             *)
(*   advisor/services/query_analyzer.py  (QueryValidator, plan analyzer)   *)
(*   advisor/services/db_connector.py    (DBConnector, the gateway)        *)
(*   advisor/services/gemini_client.py   (AIClient, provider fallback)     *)
(*   advisor/services/optimizer.py       (QueryOptimizer.optimize)         *)
(*                                                                         *)
(* Text (SQL queries, index statements, table names) is a sequence of      *)
(* pieces: each piece is an atomic substring ("SELECT", " ", "users",      *)
(* ".", ";").  Concatenation is \o and Python's str.replace is the         *)
(* leftmost, non-overlapping replacement of a sub-sequence.                *)
(***************************************************************************)
EXTENDS Integers, Sequences, FiniteSets, TLC

(***************************************************************************)
(* Bounds of the model.                                                    *)
(***************************************************************************)
\* optimize's parameter max_seq_scan_attempts (default 5 in the source)
MaxAttempts == 2
\* environment faults per run: a gateway call that fails (connection, statement,
\* timeout), or a provider call in which providers fail
MaxFaults == 1
\* most nodes in a plan given to has_seq_scan
MaxNodes == 4
\* how often a caller repeats a call of one method
MaxDirectCalls == 3

(***************************************************************************)
(* Program constants.                                                      *)
(***************************************************************************)
\* recommendations[:3] in AIClient._parse_response
MaxRecs == 3
\* needs_more_improvement = improvement < 50
ImprovementGoal == 50

None == "None"

(***************************************************************************)
(* Text as sequences of pieces.                                            *)
(***************************************************************************)
IsPrefixAt(s, i, pat) ==
    /\ i + Len(pat) - 1 <= Len(s)
    /\ \A k \in 1..Len(pat) : s[i + k - 1] = pat[k]

Contains(s, pat) == \E i \in 1..Len(s) : IsPrefixAt(s, i, pat)

RECURSIVE ReplaceFrom(_, _, _, _)
\* the text s[i..] with every occurrence of old replaced, left to right
ReplaceFrom(s, i, old, new) ==
    IF Len(s) - i + 1 < Len(old) THEN SubSeq(s, i, Len(s))
    ELSE IF IsPrefixAt(s, i, old)
         THEN new \o ReplaceFrom(s, i + Len(old), old, new)
         ELSE <<s[i]>> \o ReplaceFrom(s, i + 1, old, new)

\* Python str.replace(old, new) for a non-empty old (each argument is
\* evaluated once)
Replace(s, old, new) ==
    CHOOSE out \in { ReplaceFrom(text, 1, o, n) : text \in {s}, o \in {old}, n \in {new} } :
        TRUE

IsWs(p) == p \in {" ", "\n"}

Upper(p) ==
    CASE p = "select" -> "SELECT"
      [] p = "from"   -> "FROM"
      [] p = "join"   -> "JOIN"
      [] p = "with"   -> "WITH"
      [] p = "drop"   -> "DROP"
      [] p = "where"  -> "WHERE"
      [] p = "or"     -> "OR"
      [] p = "like"   -> "LIKE"
      [] p = "not"    -> "NOT"
      [] OTHER        -> p

\* pieces matching [a-zA-Z_][a-zA-Z0-9_]* (and \w+)
Words ==
    {"SELECT", "select", "FROM", "from", "JOIN", "join", "WITH", "with", "WHERE",
     "where", "DROP", "drop", "TABLE", "DELETE", "UPDATE", "SET", "TRUNCATE",
     "ALTER", "CREATE", "INDEX", "GRANT", "REVOKE", "ON", "OR", "AS",
     "users", "orders", "app", "ghosts", "id", "c", "idx_u", "idx_o", "idx_u2",
     "temp_test_a1", "temp_test_b2", "temp_test_c3", "temp_test_d4"}

IsWord(p) == p \in Words

\* first position >= i that is not whitespace (Len(s)+1 when there is none)
RECURSIVE SkipWs(_, _)
SkipWs(s, i) == IF i <= Len(s) /\ IsWs(s[i]) THEN SkipWs(s, i + 1) ELSE i

(***************************************************************************)
(* QueryValidator (query_analyzer.py)                                      *)
(***************************************************************************)
\* r'\bKW\s+'
KeywordThenSpace(q, kw) ==
    \E i \in 1..Len(q) : Upper(q[i]) = kw /\ i < Len(q) /\ IsWs(q[i + 1])

\* r'\bDELETE\s+FROM\s+\w+\s*(?:;|$)'
DeleteWithoutWhere(q) ==
    \E i \in 1..Len(q) :
        /\ Upper(q[i]) = "DELETE"
        /\ i + 4 <= Len(q)
        /\ IsWs(q[i + 1]) /\ Upper(q[i + 2]) = "FROM" /\ IsWs(q[i + 3])
        /\ IsWord(q[i + 4])
        /\ LET j == SkipWs(q, i + 5) IN j > Len(q) \/ q[j] = ";"

\* r'\bUPDATE\s+\w+\s+SET\s+.*(?:;|$)(?!\s*WHERE)'
UpdateWithoutWhere(q) ==
    \E i \in 1..Len(q) :
        /\ Upper(q[i]) = "UPDATE"
        /\ i + 6 <= Len(q) + 1
        /\ IsWs(q[i + 1]) /\ IsWord(q[i + 2]) /\ IsWs(q[i + 3])
        /\ Upper(q[i + 4]) = "SET" /\ IsWs(q[i + 5])
        /\ \E j \in (i + 6)..(Len(q) + 1) :
              /\ \A k \in (i + 6)..(j - 1) : q[k] # "\n"
              /\ j = Len(q) + 1 \/ q[j] = ";"
              /\ LET a == IF j > Len(q) THEN j ELSE j + 1
                     b == SkipWs(q, a)
                 IN  ~(b <= Len(q) /\ Upper(q[b]) = "WHERE")

\* r'\bCREATE\s+(?!INDEX)'
CreateNotIndex(q) ==
    \E i \in 1..Len(q) :
        /\ Upper(q[i]) = "CREATE" /\ i < Len(q) /\ IsWs(q[i + 1])
        /\ LET j == SkipWs(q, i + 1) IN ~(j <= Len(q) /\ Upper(q[j]) = "INDEX")

\* DANGEROUS_PATTERNS, in the order of the source: the messages that match
DangerousErrors(q) ==
    (IF KeywordThenSpace(q, "DROP") THEN <<"DROP statements are not allowed">> ELSE <<>>)
    \o (IF KeywordThenSpace(q, "TRUNCATE") THEN <<"TRUNCATE statements are not allowed">> ELSE <<>>)
    \o (IF DeleteWithoutWhere(q) THEN <<"DELETE without WHERE clause is not allowed">> ELSE <<>>)
    \o (IF UpdateWithoutWhere(q) THEN <<"UPDATE without WHERE clause is dangerous">> ELSE <<>>)
    \o (IF KeywordThenSpace(q, "ALTER") THEN <<"ALTER statements are not allowed">> ELSE <<>>)
    \o (IF CreateNotIndex(q) THEN <<"CREATE statements (except INDEX) are not allowed">> ELSE <<>>)
    \o (IF KeywordThenSpace(q, "GRANT") THEN <<"GRANT statements are not allowed">> ELSE <<>>)
    \o (IF KeywordThenSpace(q, "REVOKE") THEN <<"REVOKE statements are not allowed">> ELSE <<>>)

\* string literals that open with a quote and a percent sign
WildcardLiterals == {"'%a'"}
\* a list of 100 characters or more without a closing parenthesis
LongLists == {"1, 2, 3, ... (100 characters)"}

\* r'(?<!NOT\s)LIKE\s+[\'"]%'
LeadingWildcardLike(q) ==
    \E i \in 1..Len(q) :
        /\ Upper(q[i]) = "LIKE" /\ i < Len(q) /\ IsWs(q[i + 1])
        /\ LET j == SkipWs(q, i + 1) IN j <= Len(q) /\ q[j] \in WildcardLiterals
        /\ ~(i > 2 /\ IsWs(q[i - 1]) /\ Upper(q[i - 2]) = "NOT")

\* r'(?i)\bIN\s*\([^)]{100,}\)'
LargeInList(q) ==
    \E i \in 1..Len(q) :
        /\ Upper(q[i]) = "IN"
        /\ LET j == SkipWs(q, i + 1)
           IN  j + 2 <= Len(q) /\ q[j] = "(" /\ q[j + 1] \in LongLists /\ q[j + 2] = ")"

\* PERFORMANCE_ISSUE_PATTERNS, in the order of the source
PerformanceWarnings(q) ==
    (IF \E i \in 1..Len(q) : /\ Upper(q[i]) = "SELECT" /\ i < Len(q) /\ IsWs(q[i + 1])
                             /\ LET j == SkipWs(q, i + 1) IN j <= Len(q) /\ q[j] = "*"
     THEN <<"Selecting all columns (SELECT *) can be inefficient">> ELSE <<>>)
    \o (IF LeadingWildcardLike(q)
        THEN <<"Leading wildcard in LIKE prevents index usage">> ELSE <<>>)
    \o (IF \E i \in 1..Len(q) : Upper(q[i]) = "OR"
        THEN <<"OR conditions may prevent index optimization">> ELSE <<>>)
    \o (IF LargeInList(q) THEN <<"Large IN clause might be slow">> ELSE <<>>)

\* str.startswith on one piece: the piece is the keyword or a longer word
\* that opens with its letters
PieceStartsWith(p, kw) ==
    p = kw \/ <<p, kw>> \in {<<"SELECTED", "SELECT">>, <<"WITHIN", "WITH">>}

\* a check that takes any first word for SELECT
StartsWithAnyWord(q) ==
    LET j == SkipWs(q, 1) IN j <= Len(q)

\* cleaned = query.strip().upper(); cleaned.startswith('SELECT') or ('WITH')
StartsWithSelectOrWith(q) ==
    LET j == SkipWs(q, 1)
    IN  j <= Len(q) /\ \E kw \in {"SELECT", "WITH"} : PieceStartsWith(Upper(q[j]), kw)

\* a validator whose verdict ignores the errors it found
validateAcceptingAll(q) ==
    [is_valid |-> TRUE, errors |-> <<>>, warnings |-> PerformanceWarnings(q)]

\* lines 44-66
validate(q) ==
    LET errors == DangerousErrors(q)
                  \o (IF ~StartsWithSelectOrWith(q)
                      THEN <<"Only SELECT queries and CTEs are supported for analysis">>
                      ELSE <<>>)
    IN  [is_valid |-> Len(errors) = 0, errors |-> errors, warnings |-> PerformanceWarnings(q)]

\* the identifier matched after FROM/JOIN at position i: name or schema.name
TableAfter(q, i) ==
    IF i + 4 <= Len(q) /\ q[i + 3] = "." /\ IsWord(q[i + 4])
    THEN <<q[i + 2], ".", q[i + 4]>>
    ELSE <<q[i + 2]>>

\* the set built by extract_tables (r'\bFROM\s+(ident(?:\.ident)?)', same for JOIN)
extract_tables_set(q) ==
    { TableAfter(q, i) : i \in { k \in 1..Len(q) :
          /\ Upper(q[k]) \in {"FROM", "JOIN"}
          /\ k + 2 <= Len(q) /\ IsWs(q[k + 1]) /\ IsWord(q[k + 2]) } }

\* list(tables): the orders a Python set can be listed in
SeqsOfSet(S) ==
    { f \in [1..Cardinality(S) -> S] : \A i, j \in 1..Cardinality(S) : i # j => f[i] # f[j] }

extract_tables(q) == SeqsOfSet(extract_tables_set(q))

(***************************************************************************)
(* ExecutionPlanAnalyzer.has_seq_scan (query_analyzer.py)                  *)
(* A plan node is [type, plans]; a plan document is the root node.         *)
(***************************************************************************)
Node(t, kids) == [type |-> t, plans |-> kids]

\* the value None where a plan is expected
NonePlan == Node("None", <<>>)

\* a check of the root node alone
root_is_seq_scan(node) == node.type = "Seq Scan"

RECURSIVE traverse_for_seq_scan(_)
traverse_for_seq_scan(node) ==
    \/ node.type = "Seq Scan"
    \/ \E i \in 1..Len(node.plans) : traverse_for_seq_scan(node.plans[i])

\* has_seq_scan(None) raises AttributeError: callers test for None first.
\* plan.get('Plan', plan): the EXPLAIN document wraps the root node in 'Plan'
has_seq_scan(plan) ==
    traverse_for_seq_scan(IF "Plan" \in DOMAIN plan THEN plan.Plan ELSE plan)

\* the plans a caller may hand to has_seq_scan
PlanTypes == {"Seq Scan", "Index Scan", "Hash Join"}

RECURSIVE PlansOfSize(_), ForestsOfSize(_)
\* the plans of n nodes, of any depth and branching
PlansOfSize(n) == { Node(t, kids) : t \in PlanTypes, kids \in ForestsOfSize(n - 1) }
\* the lists of plans of m nodes in all
ForestsOfSize(m) ==
    IF m = 0 THEN {<<>>}
    ELSE UNION { { <<p>> \o f : p \in PlansOfSize(k), f \in ForestsOfSize(m - k) } :
                 k \in 1..m }

Plans ==
    UNION { PlansOfSize(n) : n \in 1..MaxNodes }
    \cup { [Plan |-> p] : p \in UNION { PlansOfSize(n) : n \in 1..(MaxNodes - 1) } }

(***************************************************************************)
(* The user's database as the gateway sees it.                             *)
(*   schemas     : the sandbox schemas that exist                          *)
(*   sbTables    : <<schema, table>> of the tables cloned into a sandbox   *)
(*   sbIndexes   : <<schema, table, index>> created inside a sandbox       *)
(*   origIndexes : <<schema, table, index>> on the user's own tables       *)
(* Unqualified names resolve through the search path to "public".          *)
(***************************************************************************)
SourceTables == {<<"public", "users">>, <<"app", "orders">>}

InitialOrigIndexes == {<<"public", "users", "users_pkey">>}

\* uuid4().hex[:8]: a fresh name on every call, taken in turn from this pool
SchemaNames == <<"temp_test_a1", "temp_test_b2", "temp_test_c3", "temp_test_d4">>

IsSandboxName(s) == \E i \in 1..Len(SchemaNames) : SchemaNames[i] = s

InitDb ==
    [schemas |-> {}, sbTables |-> {}, sbIndexes |-> {}, origIndexes |-> InitialOrigIndexes]

\* '.' in table / table.split('.', 1) on a name extract_tables returned
IsQualified(table) == Len(table) = 3 /\ table[2] = "."
SchemaOf(table) == IF IsQualified(table) THEN table[1] ELSE None
NameOf(table) == IF IsQualified(table) THEN table[3] ELSE table[1]

\* where a table reference of an executed statement points
ResolveRef(db, ref) ==
    LET s == IF IsQualified(ref) THEN ref[1] ELSE "public"
        t == NameOf(ref)
    IN  IF IsSandboxName(s)
        THEN [sandbox |-> TRUE, schema |-> s, table |-> t,
              exists |-> s \in db.schemas /\ <<s, t>> \in db.sbTables]
        ELSE [sandbox |-> FALSE, schema |-> s, table |-> t,
              exists |-> <<s, t>> \in SourceTables]

\* the tables an executed query reads (its FROM / JOIN references)
QueryRefs(db, q) == { ResolveRef(db, ref) : ref \in extract_tables_set(q) }

(***************************************************************************)
(* DBConnector (db_connector.py).  A call is made under a fault:           *)
(*   "none"    the connection opens and every statement runs               *)
(*   "conn"    psycopg2.connect raises OperationalError                    *)
(*   "stmt"    a statement raises a psycopg2 error                         *)
(*   "timeout" the statement is cancelled (QueryCanceled)                  *)
(***************************************************************************)
Faults == {"none", "conn", "stmt", "timeout"}

\* get_connection, line 48: the connections psycopg2.connect opens; with fault
\* "conn" it raises and conn stays None
connect(fault) == IF fault = "conn" THEN 0 ELSE 1

\* a context manager that closes the connection only when the body ends normally
close_on_normal_exit(opened, fault) == IF fault = "none" THEN opened ELSE 0

\* get_connection, lines 62-64: the finally clause closes the connection if one
\* was opened, whatever left the body
close_on_exit(opened, fault) == IF opened > 0 THEN opened ELSE 0

\* get_connection: what leaves the context manager when exception e is raised
\* at connect or thrown into the generator at its yield
get_connection(e) ==
    IF e = "none" THEN "none" ELSE "DatabaseConnectionError"

\* the except clauses of execute_explain_analyze, in order
ExplainHandler(e) ==
    CASE e = "QueryCanceled" -> "Query exceeded timeout"
      [] e \in {"OperationalError", "ProgrammingError"} -> "Query execution error"
      [] OTHER -> "Unexpected error"

\* meas = [plan, time] is what the server measures when the statement runs
execute_explain_analyze(db, q, fault, meas) ==
    LET raw == CASE fault = "conn" -> "OperationalError"
                 [] fault = "timeout" -> "QueryCanceled"
                 [] fault = "stmt" -> "ProgrammingError"
                 [] \E r \in QueryRefs(db, q) : ~r.exists -> "ProgrammingError"
                 [] OTHER -> "none"
        e == get_connection(raw)
    IN  IF e = "none"
        THEN [success |-> TRUE, plan |-> meas.plan, execution_time |-> meas.time,
              error |-> None, raised |-> FALSE]
        ELSE [success |-> FALSE, plan |-> NonePlan, execution_time |-> 0,
              error |-> ExplainHandler(e), raised |-> FALSE]

get_table_info(db, table, fault) ==
    [ret |-> IF fault = "none" THEN "info" ELSE "error", raised |-> FALSE, db |-> db]

get_schema_table_info(db, schema_name, table_name, fault) ==
    [ret |-> IF fault = "none" THEN "info" ELSE "error", raised |-> FALSE, db |-> db]

\* CREATE SCHEMA IF NOT EXISTS
create_temp_schema(db, schema_name, fault) ==
    IF fault = "none"
    THEN [ret |-> TRUE, raised |-> FALSE,
          db |-> [db EXCEPT !.schemas = @ \cup {schema_name}]]
    ELSE [ret |-> FALSE, raised |-> FALSE, db |-> db]

\* DROP SCHEMA ... CASCADE without IF EXISTS: the statement fails on a missing schema
drop_missing_schema_fails(db, schema_name, fault) ==
    IF fault = "none" /\ schema_name \in db.schemas
    THEN [ret |-> TRUE, raised |-> FALSE,
          db |-> [db EXCEPT !.schemas = @ \ {schema_name},
                            !.sbTables = {x \in @ : x[1] # schema_name},
                            !.sbIndexes = {x \in @ : x[1] # schema_name}]]
    ELSE [ret |-> FALSE, raised |-> FALSE, db |-> db]

\* DROP SCHEMA IF EXISTS ... CASCADE
drop_temp_schema(db, schema_name, fault) ==
    IF fault = "none"
    THEN [ret |-> TRUE, raised |-> FALSE,
          db |-> [db EXCEPT !.schemas = @ \ {schema_name},
                            !.sbTables = {x \in @ : x[1] # schema_name},
                            !.sbIndexes = {x \in @ : x[1] # schema_name}]]
    ELSE [ret |-> FALSE, raised |-> FALSE, db |-> db]

\* CREATE TABLE target (LIKE source ...) then INSERT INTO target SELECT ... FROM source,
\* on an autocommit connection: a fault at the INSERT leaves the empty table
clone_table_to_schema(db, source_table, target_schema, source_schema, fault) ==
    LET src == <<IF source_schema = None THEN "public" ELSE source_schema, source_table>>
        tgt == <<target_schema, source_table>>
        created == /\ fault # "conn"
                   /\ src \in SourceTables
                   /\ target_schema \in db.schemas
                   /\ tgt \notin db.sbTables
    IN  [ret |-> created /\ fault = "none", raised |-> FALSE,
         db |-> IF created THEN [db EXCEPT !.sbTables = @ \cup {tgt}] ELSE db]

\* the statement modified_statement of create_index_on_temp, lines 325-354
RECURSIVE RewriteForTables(_, _, _)
RewriteForTables(stmt, schema_name, source_tables) ==
    IF source_tables = <<>> THEN stmt
    ELSE LET table == Head(source_tables)
             one == IF IsQualified(table)
                    THEN Replace(
                           Replace(stmt, <<SchemaOf(table), ".", NameOf(table)>>,
                                         <<schema_name, ".", NameOf(table)>>),
                           <<" ", "ON", " ", NameOf(table)>>,
                           <<" ", "ON", " ", schema_name, ".", NameOf(table)>>)
                    ELSE stmt
         IN  RewriteForTables(one, schema_name, Tail(source_tables))

\* re.search(r' ON\s+(\w+)\.(\w+)'): the first match, as <<group 1, group 2>>, or <<>>
OnMatch(stmt) ==
    LET hits == { i \in 1..Len(stmt) :
                    /\ i + 5 <= Len(stmt)
                    /\ stmt[i] = " " /\ stmt[i + 1] = "ON" /\ IsWs(stmt[i + 2])
                    /\ IsWord(stmt[i + 3]) /\ stmt[i + 4] = "." /\ IsWord(stmt[i + 5]) }
    IN  IF hits = {} THEN <<>>
        ELSE LET i == CHOOSE h \in hits : \A g \in hits : h <= g
             IN  <<stmt[i + 3], stmt[i + 5]>>

RewriteFallback(stmt, schema_name) ==
    IF Contains(stmt, <<" ", "ON", " ">>) /\ ~Contains(stmt, <<" ", "ON", " ", schema_name, ".">>)
    THEN IF OnMatch(stmt) # <<>>
         THEN Replace(stmt, <<OnMatch(stmt)[1], ".", OnMatch(stmt)[2]>>,
                            <<schema_name, ".", OnMatch(stmt)[2]>>)
         ELSE Replace(stmt, <<" ", "ON", " ">>, <<" ", "ON", " ", schema_name, ".">>)
    ELSE stmt

RewriteIndexStatement(schema_name, index_statement, source_tables) ==
    IF source_tables # <<>>
    THEN RewriteForTables(index_statement, schema_name, source_tables)
    ELSE RewriteFallback(index_statement, schema_name)

\* the server's reading of CREATE INDEX <name> ON <table>( ... )
ParseCreateIndex(stmt) ==
    IF /\ Len(stmt) >= 10
       /\ SubSeq(stmt, 1, 4) = <<"CREATE", " ", "INDEX", " ">>
       /\ IsWord(stmt[5]) /\ SubSeq(stmt, 6, 8) = <<" ", "ON", " ">>
       /\ IsWord(stmt[9])
    THEN IF stmt[10] = "." /\ Len(stmt) >= 12 /\ IsWord(stmt[11]) /\ stmt[12] = "("
         THEN [ok |-> TRUE, name |-> stmt[5], ref |-> SubSeq(stmt, 9, 11)]
         ELSE IF stmt[10] = "("
              THEN [ok |-> TRUE, name |-> stmt[5], ref |-> <<stmt[9]>>]
              ELSE [ok |-> FALSE, name |-> None, ref |-> <<>>]
    ELSE [ok |-> FALSE, name |-> None, ref |-> <<>>]

\* cur.execute(modified_statement) on an autocommit connection
ExecuteIndexStatement(db, stmt) ==
    LET p == ParseCreateIndex(stmt)
        r == ResolveRef(db, p.ref)
        taken == \E x \in db.sbIndexes \cup db.origIndexes : x[1] = r.schema /\ x[3] = p.name
    IN  IF ~p.ok \/ ~r.exists \/ taken
        THEN [ok |-> FALSE, db |-> db]
        ELSE IF r.sandbox
             THEN [ok |-> TRUE,
                   db |-> [db EXCEPT !.sbIndexes = @ \cup {<<r.schema, r.table, p.name>>}]]
             ELSE [ok |-> TRUE,
                   db |-> [db EXCEPT !.origIndexes = @ \cup {<<r.schema, r.table, p.name>>}]]

\* With the connection not opened, the except handler reads modified_statement
\* before it was assigned (line 362) and UnboundLocalError leaves the method.
create_index_on_temp(db, schema_name, index_statement, source_tables, fault) ==
    IF fault = "conn"
    THEN [ret |-> None, raised |-> TRUE, db |-> db]
    ELSE CHOOSE out \in
           { IF fault = "none" /\ x.ok
             THEN [ret |-> TRUE, raised |-> FALSE, db |-> x.db]
             ELSE [ret |-> FALSE, raised |-> FALSE, db |-> db] :
               x \in { ExecuteIndexStatement(db, modified_statement) :
                         modified_statement \in
                           {RewriteIndexStatement(schema_name, index_statement,
                                                  source_tables)} } } : TRUE

(***************************************************************************)
(* AIClient (gemini_client.py).                                            *)
(* A JSON object of a response is a record: for each key, present[key]     *)
(* tells whether the key is "absent", "null" or holds a "value".           *)
(* A normalized recommendation keeps in nulls the keys whose value is None.*)
(***************************************************************************)
RecFields ==
    {"type", "description", "optimized_query", "suggested_indexes",
     "expected_improvement", "explanation"}

\* dict.get(key, default)
Get(raw, key, default) == IF raw.present[key] = "absent" THEN default ELSE raw[key]

NullKeys(raw) == { k \in RecFields : raw.present[k] = "null" }

\* A Python dict of a recommendation: keys holds the keys that are set, nulls
\* those among them whose value is None; a key that is not set holds a filler.
EmptyDict ==
    [keys |-> {}, nulls |-> {},
     type |-> "", description |-> "", optimized_query |-> <<>>, suggested_indexes |-> <<>>,
     expected_improvement |-> "", explanation |-> "", rank |-> 0,
     seq_scan_fix_reason |-> "", seq_scan_fix_attempt |-> 0,
     test_result |-> [bound |-> FALSE, success |-> FALSE, execution_time |-> 0,
                      plan |-> [type |-> "None", plans |-> <<>>], error |-> "None"],
     optimization_attempts |-> 0, optimization_history |-> <<>>,
     seq_scan_eliminated |-> FALSE, all_indexes_applied |-> <<>>,
     final_optimized_query |-> <<>>, original_query |-> <<>>, query_was_rewritten |-> FALSE,
     improvement_percentage |-> 0, tested_execution_time |-> 0]

\* the dict built per element by _parse_response (lines 400-408)
NormalizeRec(raw, i, original_query) ==
    [EmptyDict EXCEPT
       !.keys = RecFields \cup {"rank"},
       !.nulls = NullKeys(raw),
       !.type = Get(raw, "type", "rewrite"),
       !.description = Get(raw, "description", "No description provided"),
       !.optimized_query = Get(raw, "optimized_query", original_query),
       !.suggested_indexes = Get(raw, "suggested_indexes", <<>>),
       !.expected_improvement = Get(raw, "expected_improvement", "medium"),
       !.explanation = Get(raw, "explanation", ""),
       !.rank = i]

\* the dict returned by _parse_single_response (lines 429-437)
NormalizeSingle(raw, original_query) ==
    [EmptyDict EXCEPT
       !.keys = RecFields \cup {"seq_scan_fix_reason"},
       !.nulls = NullKeys(raw),
       !.type = Get(raw, "type", "index"),
       !.description = Get(raw, "description", "No description provided"),
       !.optimized_query = Get(raw, "optimized_query", original_query),
       !.suggested_indexes = Get(raw, "suggested_indexes", <<>>),
       !.expected_improvement = Get(raw, "expected_improvement", "high"),
       !.explanation = Get(raw, "explanation", ""),
       !.seq_scan_fix_reason = ""]

\* A response text is a sequence of lines: a code fence ("fence"), a line that
\* holds one JSON document ("json", with its value) or other text ("text").
FenceLine == [t |-> "fence", shape |-> "none", items |-> <<>>]
TextLine == [t |-> "text", shape |-> "none", items |-> <<>>]
JsonLine(shape, items) == [t |-> "json", shape |-> shape, items |-> items]

\* lines 383-385: strip the markdown code block
StripFence(lines) ==
    IF Len(lines) > 0 /\ lines[1].t = "fence"
    THEN IF lines[Len(lines)].t = "fence"
         THEN SubSeq(lines, 2, Len(lines) - 1)
         ELSE SubSeq(lines, 2, Len(lines))
    ELSE lines

\* json.loads succeeds when the text is exactly one JSON document
JsonLoads(lines) ==
    IF Len(lines) = 1 /\ lines[1].t = "json"
    THEN [ok |-> TRUE, shape |-> lines[1].shape, items |-> lines[1].items]
    ELSE [ok |-> FALSE, shape |-> "none", items |-> <<>>]

Take(s, n) == SubSeq(s, 1, IF Len(s) < n THEN Len(s) ELSE n)

\* shape "array": every element is an object; "array_nonobj": one of the
\* first three elements is not an object, so rec.get raises AttributeError
parse_response(lines, original_query) ==
    LET j == JsonLoads(StripFence(lines))
    IN  IF ~j.ok THEN [ok |-> FALSE, value |-> <<>>, error |-> "Failed to parse AI response as JSON"]
        ELSE IF j.shape = "object"
        THEN [ok |-> FALSE, value |-> <<>>, error |-> "Expected a list of recommendations"]
        ELSE IF j.shape = "array_nonobj"
        THEN [ok |-> FALSE, value |-> <<>>, error |-> "AttributeError"]
        ELSE [ok |-> TRUE,
              value |-> [i \in 1..Len(Take(j.items, MaxRecs)) |->
                            NormalizeRec(j.items[i], i, original_query)],
              error |-> None]

parse_single_response(lines, original_query) ==
    LET j == JsonLoads(StripFence(lines))
    IN  IF ~j.ok THEN [ok |-> FALSE, value |-> <<>>, error |-> "Failed to parse AI response as JSON"]
        ELSE IF j.shape # "object"
        THEN [ok |-> FALSE, value |-> <<>>, error |-> "Expected a single recommendation object"]
        ELSE [ok |-> TRUE, value |-> <<NormalizeSingle(j.items[1], original_query)>>,
              error |-> None]

\* _init_available_providers: the priority order among the configured providers
ProviderPriority == <<"gemini", "deepseek", "groq">>

RECURSIVE FilterSeq(_, _)
FilterSeq(s, keep) ==
    IF s = <<>> THEN <<>>
    ELSE (IF Head(s) \in keep THEN <<Head(s)>> ELSE <<>>) \o FilterSeq(Tail(s), keep)

init_available_providers(withKey) == FilterSeq(ProviderPriority, withKey)

\* one iteration of the provider loop (lines 254-291 and 473-541): what a
\* provider answering resp yields.  resp.fail is "init_error" or
\* "network_error" when provider['init']() or the API call raises.
CallProvider(kind, resp, original_query) ==
    IF resp.fail # "none"
    THEN [ok |-> FALSE, value |-> <<>>, error |-> resp.fail]
    ELSE IF kind = "initial"
         THEN parse_response(resp.lines, original_query)
         ELSE parse_single_response(resp.lines, original_query)

(***************************************************************************)
(* The inputs the model draws from: queries a user submits, what the       *)
(* server measures, and what a provider answers.                           *)
(***************************************************************************)
\* SELECT * FROM users WHERE id = 1;
QUsers == <<"SELECT", " ", "*", " ", "FROM", " ", "users", " ", "WHERE", " ", "id", "=", "1", ";">>
\* SELECT c FROM app.orders;
QOrders == <<"SELECT", " ", "c", " ", "FROM", " ", "app", ".", "orders", ";">>
\* DROP TABLE users;
QDrop == <<"DROP", " ", "TABLE", " ", "users", ";">>

\* a statement that ends with the table name, with no semicolon
QUsersAll == <<"SELECT", " ", "*", " ", "FROM", " ", "users">>

Queries == {QUsers, QOrders, QDrop, QUsersAll}

\* CREATE INDEX idx_u ON users(id)
IdxUsers == <<"CREATE", " ", "INDEX", " ", "idx_u", " ", "ON", " ", "users", "(", "id", ")">>
\* CREATE INDEX idx_u2 ON users(id)
IdxUsers2 == <<"CREATE", " ", "INDEX", " ", "idx_u2", " ", "ON", " ", "users", "(", "id", ")">>
\* CREATE INDEX idx_o ON app.orders(c)
IdxOrders == <<"CREATE", " ", "INDEX", " ", "idx_o", " ", "ON", " ", "app", ".", "orders", "(", "c", ")">>
\* SELECT id FROM users WHERE id = 1
QUsersRewritten == <<"SELECT", " ", "id", " ", "FROM", " ", "users", " ", "WHERE", " ", "id", "=", "1">>

AllValue == [k \in RecFields |-> "value"]

Raw(type, q, idx) ==
    [present |-> AllValue, type |-> type, description |-> "d", optimized_query |-> q,
     suggested_indexes |-> idx, expected_improvement |-> "high", explanation |-> "e"]

\* an index on users, the query left out of the answer
RawIdx == [Raw("index", <<>>, <<IdxUsers>>) EXCEPT !.present["optimized_query"] = "absent"]
\* a rewritten query, type and indexes left out
RawRewrite == [Raw("", QUsersRewritten, <<>>) EXCEPT !.present["type"] = "absent",
                                                   !.present["suggested_indexes"] = "absent"]
\* an index on app.orders and on users
RawOrders == Raw("index", QOrders, <<IdxOrders, IdxUsers>>)
\* "suggested_indexes": null
RawNullIdx == [Raw("config", <<>>, <<>>) EXCEPT !.present["suggested_indexes"] = "null",
                                               !.present["optimized_query"] = "absent"]
\* a refinement: the index already suggested and one more
RawFix == Raw("index", QUsersRewritten, <<IdxUsers, IdxUsers2>>)
\* a refinement with only the description
RawFixBare == [present |-> [k \in RecFields |-> IF k = "description" THEN "value" ELSE "absent"],
               type |-> "", description |-> "d2", optimized_query |-> <<>>,
               suggested_indexes |-> <<>>, expected_improvement |-> "", explanation |-> ""]

InitialArrays ==
    {<<>>, <<RawIdx>>, <<RawRewrite, RawOrders>>, <<RawNullIdx>>,
     <<RawIdx, RawRewrite, RawOrders, RawNullIdx>>}

FixObjects == {RawFix, RawFixBare}

\* the texts a provider may answer with, and the two ways its call may raise
Responses(kind) ==
    { [fail |-> f, lines |-> <<>>] : f \in {"init_error", "network_error"} }
    \cup { [fail |-> "none", lines |-> l] : l \in
             {<<TextLine>>, <<FenceLine>>, <<JsonLine("array_nonobj", <<>>)>>}
             \cup { <<JsonLine("array", a)>> : a \in InitialArrays }
             \cup { <<FenceLine, JsonLine("array", a), FenceLine>> : a \in InitialArrays }
             \cup { <<JsonLine("object", <<o>>)>> : o \in FixObjects }
             \cup { <<FenceLine, JsonLine("object", <<o>>)>> : o \in FixObjects } }

\* the answers met while optimize runs: one of each outcome that optimize tells apart
RunResponses(kind) ==
    IF kind = "initial"
    THEN {[fail |-> "network_error", lines |-> <<>>], [fail |-> "none", lines |-> <<TextLine>>]}
         \cup { [fail |-> "none", lines |-> <<JsonLine("array", a)>>] : a \in
                  {<<>>, <<RawIdx>>, <<RawRewrite, RawOrders>>, <<RawNullIdx>>} }
         \cup { [fail |-> "none",
                 lines |-> <<FenceLine,
                             JsonLine("array", <<RawIdx, RawRewrite, RawOrders, RawNullIdx>>),
                             FenceLine>>] }
    ELSE {[fail |-> "init_error", lines |-> <<>>],
          [fail |-> "none", lines |-> <<FenceLine, JsonLine("object", <<RawFix>>)>>]}

PlanIdx == Node("Index Scan", <<>>)
PlanSeq == Node("Seq Scan", <<>>)
PlanNested == Node("Nested Loop", <<PlanIdx, Node("Hash Join", <<PlanIdx, PlanSeq>>)>>)

\* what EXPLAIN ANALYZE measures for the original query and in the sandbox
BaselineMeasurements ==
    {[plan |-> PlanNested, time |-> 500], [plan |-> PlanIdx, time |-> 500],
     [plan |-> PlanIdx, time |-> 0]}
TestMeasurements ==
    {[plan |-> PlanIdx, time |-> 200], [plan |-> PlanSeq, time |-> 200],
     [plan |-> PlanIdx, time |-> 400]}

(***************************************************************************)
(* QueryOptimizer.optimize (optimizer.py) as a state machine.              *)
(***************************************************************************)
VARIABLES
    pc,                     \* position in optimize (or "ai_call" for a direct AIClient call)
    phase,                  \* run-level phase reached
    query,                  \* optimize's argument query
    test_recommendations,   \* optimize's argument test_recommendations
    providers,              \* AIClient.providers
    db,                     \* the user's database
    faults,                 \* environment faults injected so far
    schemaCount,            \* sandbox names generated so far
    analysis,               \* analyze_query's result
    original_has_seq_scan,
    tables,                 \* extract_tables(query)
    recommendations,
    provider_used,          \* the provider that answered the initial call
    rec_index,
    current_rec,
    attempt,
    optimization_history,
    schema_name,
    all_indexes_created,
    final_optimized_query,
    test_result,            \* not reset between recommendations (a function local)
    pos,                    \* position of the for loop being run
    exc,                    \* exception propagating out of the try block
    result,                 \* what optimize returned or raised
    aiKind,                 \* AIClient method running: "initial", "refine" or "idle"
    aiIdx,                  \* index of the provider the loop is at
    aiLog,                  \* the providers invoked in this call, in order, and how each answered
    aiLastError,            \* last_error
    aiOut,                  \* what the AIClient method returned or raised
    gw,                     \* the last gateway call: method, fault, whether it raised
    calls,                  \* calls made in this run: gateway, provider, create_temp_schema
    loopStats,              \* of the current recommendation: tests run, refinements asked
    invoked,                \* a service method called on its own: method and argument
    returned                \* what the successive calls of that method returned

vars ==
    <<pc, phase, query, test_recommendations, providers, db, faults, schemaCount, analysis,
      original_has_seq_scan, tables, recommendations, provider_used, rec_index, current_rec,
      attempt, optimization_history, schema_name, all_indexes_created,
      final_optimized_query, test_result, pos, exc, result, aiKind, aiIdx, aiLog,
      aiLastError, aiOut, gw, calls, loopStats, invoked, returned>>

directVars == <<invoked, returned>>

aiVars == <<aiKind, aiIdx, aiLog, aiLastError, aiOut>>

loopVars ==
    <<current_rec, attempt, optimization_history, schema_name, all_indexes_created,
      final_optimized_query, test_result>>

UnboundResult == EmptyDict.test_result
NoAnalysis == [success |-> FALSE, execution_time |-> 0, plan |-> NonePlan]
NoResult == [kind |-> "none", success |-> FALSE, stage |-> None, error |-> None,
             recommendations |-> <<>>, ai_provider |-> None]
AiIdle == [status |-> "idle", provider |-> None, value |-> <<>>, error |-> None]
AiPending == [AiIdle EXCEPT !.status = "pending"]
NoDirectCall == [method |-> None, arg |-> None]
NoCall == [method |-> None, fault |-> "none", raised |-> FALSE, opened |-> 0]

\* the provider configurations: every non-empty set of credentials
ProviderConfigs ==
    { init_available_providers(k) : k \in (SUBSET {"gemini", "deepseek", "groq"}) \ {{}} }

InitState(f) ==
    /\ phase = "Validating"
    /\ db = InitDb
    /\ faults = f
    /\ schemaCount = 0
    /\ analysis = NoAnalysis
    /\ original_has_seq_scan = FALSE
    /\ tables = <<>>
    /\ recommendations = <<>>
    /\ provider_used = None
    /\ rec_index = 0
    /\ current_rec = EmptyDict
    /\ attempt = 0
    /\ optimization_history = <<>>
    /\ schema_name = None
    /\ all_indexes_created = <<>>
    /\ final_optimized_query = <<>>
    /\ test_result = UnboundResult
    /\ pos = 0
    /\ exc = "none"
    /\ result = NoResult
    /\ aiLog = <<>>
    /\ aiLastError = None
    /\ gw = NoCall
    /\ calls = [db |-> 0, ai |-> 0, schemas |-> 0, open |-> 0]
    /\ loopStats = [tests |-> 0, refines |-> 0]

InitCommon == InitState(0)

\* views.py: QueryOptimizer(params).optimize(query, test_recommendations=...)
Init ==
    /\ InitCommon
    /\ invoked = NoDirectCall
    /\ returned = <<>>
    /\ pc = "validate"
    /\ query \in Queries
    /\ test_recommendations \in BOOLEAN
    /\ providers = init_available_providers({"gemini", "groq"})
    /\ aiKind = "idle"
    /\ aiIdx = 0
    /\ aiOut = AiIdle

\* a caller invoking get_optimization_recommendations or get_seq_scan_fix
InitAI ==
    /\ InitCommon
    /\ invoked = NoDirectCall
    /\ returned = <<>>
    /\ pc = "ai_call"
    /\ query \in {QUsers, QOrders}
    /\ test_recommendations = FALSE
    /\ providers \in ProviderConfigs
    /\ aiKind \in {"initial", "refine"}
    /\ aiIdx = 1
    /\ aiOut = AiPending

\* a fault may be injected while the budget lasts
MayFail(fault) == fault = "none" \/ faults < MaxFaults
Charge(fault) == IF fault = "none" THEN faults ELSE faults + 1

(***************************************************************************)
(* AIClient.get_optimization_recommendations / get_seq_scan_fix            *)
(***************************************************************************)
\* the method is entered: last_error = None, the loop starts at the first provider
AiStart(kind) ==
    /\ aiKind' = kind
    /\ aiIdx' = 1
    /\ aiLog' = <<>>
    /\ aiLastError' = None
    /\ aiOut' = AiPending

AiReset ==
    /\ aiKind' = "idle"
    /\ aiIdx' = 0
    /\ aiLog' = <<>>
    /\ aiLastError' = None
    /\ aiOut' = AiIdle

\* a loop that passes over the provider after the one that failed
NextProviderSkipping(i) == i + 2

\* where the loop goes after provider i failed
NextProvider(i) == i + 1

\* one iteration of "for provider in self.providers"
AiTryProvider ==
    /\ aiOut.status = "pending"
    /\ aiIdx >= 1 /\ aiIdx <= Len(providers)
    /\ \E resp \in (IF pc = "ai_call" THEN Responses(aiKind) ELSE RunResponses(aiKind)) :
         LET r == CallProvider(aiKind, resp, query)
         IN  /\ r.ok \/ aiLastError # None \/ faults < MaxFaults
             /\ faults' = IF r.ok \/ aiLastError # None THEN faults ELSE faults + 1
             /\ aiLog' = Append(aiLog, [provider |-> providers[aiIdx], ok |-> r.ok,
                                        error |-> r.error,
                                        shape |-> IF resp.fail # "none" THEN "none"
                                                  ELSE JsonLoads(StripFence(resp.lines)).shape])
             /\ calls' = [calls EXCEPT !.ai = @ + 1]
             /\ IF r.ok
                THEN /\ aiOut' = [status |-> "ok", provider |-> providers[aiIdx],
                                  value |-> r.value, error |-> None]
                     /\ UNCHANGED <<aiIdx, aiLastError>>
                ELSE /\ aiLastError' = r.error
                     /\ aiIdx' = NextProvider(aiIdx)
                     /\ UNCHANGED aiOut
    /\ UNCHANGED <<pc, query, providers, aiKind>>
    /\ UNCHANGED <<phase, test_recommendations, db, schemaCount, analysis,
                   original_has_seq_scan, tables, recommendations, provider_used, rec_index,
                   pos, exc, result, gw, loopStats>>
    /\ UNCHANGED loopVars
    /\ UNCHANGED directVars

\* after the loop: raise AIClientError("All AI providers failed. Last error: ...")
AiAllFailed ==
    /\ aiOut.status = "pending"
    /\ aiIdx > Len(providers)
    /\ aiOut' = [status |-> "raised", provider |-> None, value |-> <<>>,
                 error |-> aiLastError]
    /\ UNCHANGED <<pc, query, providers, faults, calls, aiKind, aiIdx, aiLog, aiLastError>>
    /\ UNCHANGED <<phase, test_recommendations, db, schemaCount, analysis,
                   original_has_seq_scan, tables, recommendations, provider_used, rec_index,
                   pos, exc, result, gw, loopStats>>
    /\ UNCHANGED loopVars
    /\ UNCHANGED directVars

(***************************************************************************)
(* Helpers of optimize                                                     *)
(***************************************************************************)
\* lines 274-293: the optimized query with the tables of the original query
\* pointed at the sandbox schema
RECURSIVE RewriteTestQuery(_, _, _)
RewriteTestQuery(q, tbls, schema) ==
    IF tbls = <<>> THEN q
    ELSE LET table == Head(tbls)
             t == NameOf(table)
             one == IF IsQualified(table)
                    THEN Replace(q, <<SchemaOf(table), ".", t>>, <<schema, ".", t>>)
                    ELSE Replace(
                           Replace(
                             Replace(q, <<" ", t, " ">>, <<" ", schema, ".", t, " ">>),
                             <<" ", t, "\n">>, <<" ", schema, ".", t, "\n">>),
                           <<" ", t, ";">>, <<" ", schema, ".", t, ";">>)
         IN  RewriteTestQuery(one, Tail(tbls), schema)

\* lines 314-317; the times the model measures divide exactly
ImprovementPct(original_time, tested_time) ==
    IF original_time > 0
    THEN ((original_time - tested_time) * 100) \div original_time
    ELSE 0

\* a condition that does not look at the tested plan
NeedsSeqScanFixIgnoringPlan(orig_has, tr) == orig_has

\* line 322
NeedsSeqScanFix(orig_has, tr) == orig_has /\ has_seq_scan(tr.plan)
\* line 323
NeedsMoreImprovement(original_time, tr) ==
    ImprovementPct(original_time, tr.execution_time) < ImprovementGoal

\* a condition without the bound on the attempts
ShouldRefineUnbounded(orig_has, original_time, tr, att) ==
    NeedsSeqScanFix(orig_has, tr) \/ NeedsMoreImprovement(original_time, tr)

\* line 325: whether a refinement is asked for after a successful test
ShouldRefine(orig_has, original_time, tr, att) ==
    /\ NeedsSeqScanFix(orig_has, tr) \/ NeedsMoreImprovement(original_time, tr)
    /\ att < MaxAttempts

\* lines 326-330 and 342-352
HistoryEntry(orig_has, original_time, tr, att, rec) ==
    [attempt |-> att,
     recommendation |-> [type |-> rec.type, description |-> rec.description,
                         suggested_indexes |-> rec.suggested_indexes],
     still_has_seq_scan |-> has_seq_scan(tr.plan),
     improvement_percentage |-> ImprovementPct(original_time, tr.execution_time),
     reason |-> (IF NeedsSeqScanFix(orig_has, tr) THEN <<"still has seq scan">> ELSE <<>>)
                \o (IF NeedsMoreImprovement(original_time, tr)
                    THEN <<"improvement below goal">> ELSE <<>>)]

\* lines 363-364: {**current_rec, **new_rec} and the seq_scan_fix_attempt key
MergeRec(cur, new, att) ==
    [cur EXCEPT
       !.keys = @ \cup new.keys \cup {"seq_scan_fix_attempt"},
       !.nulls = (@ \ new.keys) \cup new.nulls,
       !.type = new.type,
       !.description = new.description,
       !.optimized_query = new.optimized_query,
       !.suggested_indexes = new.suggested_indexes,
       !.expected_improvement = new.expected_improvement,
       !.explanation = new.explanation,
       !.seq_scan_fix_reason = new.seq_scan_fix_reason,
       !.seq_scan_fix_attempt = att]

\* line 385 when it does not raise
SeqScanEliminated(orig_has, tr) == orig_has /\ ~has_seq_scan(tr.plan)

\* lines 381-399: the recommendation with the results stored in it
StoreRec(cur, tr, att, hist, orig_has, original_time, applied, final_q, q) ==
    LET timed == tr.success /\ original_time > 0
    IN  [cur EXCEPT
           !.keys = @ \cup {"test_result", "optimization_attempts", "optimization_history",
                            "seq_scan_eliminated", "all_indexes_applied",
                            "final_optimized_query", "original_query", "query_was_rewritten"}
                      \cup (IF timed THEN {"improvement_percentage", "tested_execution_time"}
                            ELSE {}),
           !.test_result = tr,
           !.optimization_attempts = att,
           !.optimization_history = hist,
           !.seq_scan_eliminated = SeqScanEliminated(orig_has, tr),
           !.all_indexes_applied = applied,
           !.final_optimized_query = final_q,
           !.original_query = q,
           !.query_was_rewritten = (final_q # q),
           !.improvement_percentage =
               IF timed THEN ImprovementPct(original_time, tr.execution_time) ELSE @,
           !.tested_execution_time = IF timed THEN tr.execution_time ELSE @]

\* lines 403-406: the sort key, r.get(key, default)
SortKey(r) ==
    <<IF "seq_scan_eliminated" \in r.keys /\ r.seq_scan_eliminated THEN 1 ELSE 0,
      IF "improvement_percentage" \in r.keys THEN r.improvement_percentage ELSE 0>>

\* a comparison by improvement alone
KeyGreaterByImprovement(a, b) == a[2] > b[2]

\* tuple comparison: a > b
KeyGreater(a, b) == a[1] > b[1] \/ (a[1] = b[1] /\ a[2] > b[2])

\* an insertion that puts a record before the records of equal key
RECURSIVE InsertBeforeEqual(_, _)
InsertBeforeEqual(sorted, r) ==
    IF sorted = <<>> THEN <<r>>
    ELSE IF ~KeyGreater(SortKey(Head(sorted)), SortKey(r))
         THEN <<r>> \o sorted
         ELSE <<Head(sorted)>> \o InsertBeforeEqual(Tail(sorted), r)

\* list.sort(key=..., reverse=True): descending, equal keys keep their order
RECURSIVE InsertDesc(_, _)
InsertDesc(sorted, r) ==
    IF sorted = <<>> THEN <<r>>
    ELSE IF KeyGreater(SortKey(r), SortKey(Head(sorted)))
         THEN <<r>> \o sorted
         ELSE <<Head(sorted)>> \o InsertDesc(Tail(sorted), r)

RECURSIVE SortDesc(_)
SortDesc(recs) ==
    IF recs = <<>> THEN <<>>
    ELSE CHOOSE out \in { InsertDesc(sorted, recs[Len(recs)]) :
                             sorted \in {SortDesc(SubSeq(recs, 1, Len(recs) - 1))} } : TRUE

\* lines 402-410
RankRecs(recs) ==
    CHOOSE out \in
        { [i \in 1..Len(sorted) |-> [sorted[i] EXCEPT !.rank = i, !.keys = @ \cup {"rank"}]] :
            sorted \in {SortDesc(recs)} } : TRUE

Returned(success, stage, error, recs, provider) ==
    [kind |-> "returned", success |-> success, stage |-> stage, error |-> error,
     recommendations |-> recs, ai_provider |-> provider]
Raised(e) ==
    [kind |-> "raised", success |-> FALSE, stage |-> None, error |-> e,
     recommendations |-> <<>>, ai_provider |-> None]

\* the counters after a gateway call: one more call, and the connections the
\* call opened and did not close
CallsAfter(fault) ==
    [calls EXCEPT !.db = @ + 1,
                  !.open = @ + connect(fault) - close_on_exit(connect(fault), fault)]

\* bookkeeping of a gateway call
Gateway(method, fault, raised) ==
    /\ MayFail(fault)
    /\ faults' = Charge(fault)
    /\ gw' = [method |-> method, fault |-> fault, raised |-> raised,
              opened |-> connect(fault)]
    /\ calls' = CallsAfter(fault)

(***************************************************************************)
(* analyze_query and the provider call (optimizer.py lines 42-93, 210-232) *)
(***************************************************************************)
\* lines 52-59: validate; a rejected query returns at once
Validate ==
    /\ pc = "validate"
    /\ IF validate(query).is_valid
       THEN /\ pc' = "baseline"
            /\ phase' = "BaselineExecuting"
            /\ UNCHANGED result
       ELSE /\ pc' = "done"
            /\ phase' = "Aborted"
            /\ result' = Returned(FALSE, "validation", "errors", <<>>, None)
    /\ UNCHANGED <<query, test_recommendations, providers, db, faults, schemaCount, analysis,
                   original_has_seq_scan, tables, recommendations, provider_used, rec_index,
                   pos, exc, gw, calls, loopStats>>
    /\ UNCHANGED loopVars
    /\ UNCHANGED aiVars
    /\ UNCHANGED directVars

\* lines 62-72 and 75-79: EXPLAIN ANALYZE of the original query
Baseline ==
    /\ pc = "baseline"
    /\ \E fault \in Faults, meas \in BaselineMeasurements :
         LET r == execute_explain_analyze(db, query, fault, meas)
         IN  /\ Gateway("execute_explain_analyze", fault, r.raised)
             /\ IF r.success
                THEN /\ analysis' = [success |-> TRUE, execution_time |-> r.execution_time,
                                     plan |-> r.plan]
                     /\ tables' \in extract_tables(query)
                     /\ pc' = "table_info"
                     /\ pos' = 1
                     /\ UNCHANGED <<phase, result>>
                ELSE /\ pc' = "done"
                     /\ phase' = "Aborted"
                     /\ result' = Returned(FALSE, "execution", r.error, <<>>, None)
                     /\ UNCHANGED <<analysis, tables, pos>>
    /\ UNCHANGED <<query, test_recommendations, providers, db, schemaCount,
                   original_has_seq_scan, recommendations, provider_used, rec_index, exc,
                   loopStats>>
    /\ UNCHANGED loopVars
    /\ UNCHANGED aiVars
    /\ UNCHANGED directVars

\* lines 80-82: one get_table_info call of the loop
TableInfo ==
    /\ pc = "table_info"
    /\ pos <= Len(tables)
    /\ \E fault \in {"none", "conn"} :
         LET r == get_table_info(db, tables[pos], fault)
         IN  Gateway("get_table_info", fault, r.raised)
    /\ pos' = pos + 1
    /\ UNCHANGED <<pc, phase, query, test_recommendations, providers, db, schemaCount,
                   analysis, original_has_seq_scan, tables, recommendations, provider_used,
                   rec_index, exc, result, loopStats>>
    /\ UNCHANGED loopVars
    /\ UNCHANGED aiVars
    /\ UNCHANGED directVars

\* lines 84-93, 216, 220 and 109: the analysis is returned, the seq scan flag is
\* computed and get_optimization_recommendations is entered
AskRecommendations ==
    /\ pc = "table_info"
    /\ pos > Len(tables)
    /\ original_has_seq_scan' = has_seq_scan(analysis.plan)
    /\ pc' = "recommend"
    /\ phase' = "Recommending"
    /\ AiStart("initial")
    /\ UNCHANGED <<query, test_recommendations, providers, db, faults, schemaCount, analysis,
                   tables, recommendations, provider_used, rec_index, pos, exc, result, gw,
                   calls, loopStats>>
    /\ UNCHANGED loopVars
    /\ UNCHANGED directVars

\* lines 116-118 and 220-232: the provider call returned or raised
RecommendReturn ==
    /\ pc = "recommend"
    /\ aiOut.status \in {"ok", "raised"}
    /\ IF aiOut.status = "raised"
       THEN /\ pc' = "done"
            /\ phase' = "Aborted"
            /\ result' = Returned(FALSE, "recommendations", aiOut.error, <<>>, None)
            /\ UNCHANGED <<recommendations, provider_used, rec_index>>
       ELSE /\ recommendations' = aiOut.value
            /\ provider_used' = aiOut.provider
            /\ rec_index' = 1
            /\ pc' = IF test_recommendations THEN "rec_start" ELSE "rank"
            /\ phase' = IF test_recommendations THEN "TestingEach" ELSE phase
            /\ UNCHANGED result
    /\ AiReset
    /\ UNCHANGED <<query, test_recommendations, providers, db, faults, schemaCount, analysis,
                   original_has_seq_scan, tables, pos, exc, gw, calls, loopStats>>
    /\ UNCHANGED loopVars
    /\ UNCHANGED directVars

(***************************************************************************)
(* The loop over the recommendations (optimizer.py lines 234-399)          *)
(***************************************************************************)
\* lines 234-243: the next recommendation, or the end of the for loop
RecStart ==
    /\ pc = "rec_start"
    /\ IF rec_index <= Len(recommendations)
       THEN /\ current_rec' = recommendations[rec_index]
            /\ attempt' = 0
            /\ optimization_history' = <<>>
            /\ schema_name' = None
            /\ all_indexes_created' = <<>>
            /\ final_optimized_query' = recommendations[rec_index].optimized_query
            /\ loopStats' = [tests |-> 0, refines |-> 0]
            /\ pc' = "loop_head"
       ELSE /\ pc' = "rank"
            /\ UNCHANGED <<current_rec, attempt, optimization_history, schema_name,
                           all_indexes_created, final_optimized_query, loopStats>>
    /\ UNCHANGED <<phase, query, test_recommendations, providers, db, faults, schemaCount,
                   analysis, original_has_seq_scan, tables, recommendations, provider_used,
                   rec_index, test_result, pos, exc, result, gw, calls>>
    /\ UNCHANGED aiVars
    /\ UNCHANGED directVars

\* lines 246-254: first attempt; the sandbox schema is named and created
AttemptCreateSchema ==
    /\ pc = "loop_head"
    /\ attempt < MaxAttempts
    /\ schema_name = None
    /\ attempt' = attempt + 1
    /\ schemaCount' = schemaCount + 1
    /\ schema_name' = SchemaNames[schemaCount + 1]
    /\ \E fault \in {"none", "conn", "stmt"} :
         LET r == create_temp_schema(db, SchemaNames[schemaCount + 1], fault)
         IN  /\ MayFail(fault)
             /\ faults' = Charge(fault)
             /\ gw' = [method |-> "create_temp_schema", fault |-> fault,
                       raised |-> r.raised, opened |-> connect(fault)]
             /\ db' = r.db
             /\ calls' = [CallsAfter(fault) EXCEPT !.schemas = @ + 1]
             /\ IF r.ret
                THEN /\ pc' = IF tables = <<>> THEN "index" ELSE "clone"
                     /\ pos' = 1
                ELSE /\ pc' = "finally"
                     /\ UNCHANGED pos
    /\ UNCHANGED <<phase, query, test_recommendations, providers, analysis,
                   original_has_seq_scan, tables, recommendations, provider_used, rec_index,
                   current_rec, optimization_history, all_indexes_created,
                   final_optimized_query, test_result, exc, result, loopStats>>
    /\ UNCHANGED aiVars
    /\ UNCHANGED directVars

\* lines 246-251: the loop head after a refinement; the schema is reused.  The
\* while condition fails only when the attempts are used up.
NextAttempt ==
    /\ pc = "loop_head"
    /\ schema_name # None
    /\ IF attempt < MaxAttempts
       THEN /\ attempt' = attempt + 1
            /\ pc' = "index"
            /\ pos' = 1
       ELSE /\ pc' = "finally"
            /\ UNCHANGED <<attempt, pos>>
    /\ UNCHANGED <<phase, query, test_recommendations, providers, db, faults, schemaCount,
                   analysis, original_has_seq_scan, tables, recommendations, provider_used,
                   rec_index, current_rec, optimization_history, schema_name,
                   all_indexes_created, final_optimized_query, test_result, exc, result, gw,
                   calls, loopStats>>
    /\ UNCHANGED aiVars
    /\ UNCHANGED directVars

\* lines 256-261: one clone_table_to_schema call; its result is not looked at
CloneTable ==
    /\ pc = "clone"
    /\ pos <= Len(tables)
    /\ \E fault \in {"none", "conn", "stmt"} :
         LET r == clone_table_to_schema(db, NameOf(tables[pos]), schema_name,
                                        SchemaOf(tables[pos]), fault)
         IN  /\ Gateway("clone_table_to_schema", fault, r.raised)
             /\ db' = r.db
    /\ pos' = IF pos = Len(tables) THEN 1 ELSE pos + 1
    /\ pc' = IF pos = Len(tables) THEN "index" ELSE "clone"
    /\ UNCHANGED <<phase, query, test_recommendations, providers, schemaCount, analysis,
                   original_has_seq_scan, tables, recommendations, provider_used, rec_index,
                   exc, result, loopStats>>
    /\ UNCHANGED loopVars
    /\ UNCHANGED aiVars
    /\ UNCHANGED directVars

\* line 264 with suggested_indexes None: iterating None raises TypeError
IndexesNull ==
    /\ pc = "index"
    /\ "suggested_indexes" \in current_rec.nulls
    /\ exc' = "TypeError"
    /\ pc' = "finally"
    /\ UNCHANGED <<phase, query, test_recommendations, providers, db, faults, schemaCount,
                   analysis, original_has_seq_scan, tables, recommendations, provider_used,
                   rec_index, pos, result, gw, calls, loopStats>>
    /\ UNCHANGED loopVars
    /\ UNCHANGED aiVars
    /\ UNCHANGED directVars

\* a loop that asks for every suggested index again, applied before or not
AlwaysCreate(index_stmt, created) == TRUE

\* line 265: index_stmt not in all_indexes_created, by exact text
NotYetCreated(index_stmt, created) ==
    \A k \in 1..Len(created) : created[k] # index_stmt

\* line 265: a statement already applied is passed over
IndexSkip ==
    /\ pc = "index"
    /\ "suggested_indexes" \notin current_rec.nulls
    /\ pos <= Len(current_rec.suggested_indexes)
    /\ ~NotYetCreated(current_rec.suggested_indexes[pos], all_indexes_created)
    /\ pos' = pos + 1
    /\ UNCHANGED <<pc, phase, query, test_recommendations, providers, db, faults, schemaCount,
                   analysis, original_has_seq_scan, tables, recommendations, provider_used,
                   rec_index, exc, result, gw, calls, loopStats>>
    /\ UNCHANGED loopVars
    /\ UNCHANGED aiVars
    /\ UNCHANGED directVars

\* lines 266-269: one create_index_on_temp call
IndexCreate ==
    /\ pc = "index"
    /\ "suggested_indexes" \notin current_rec.nulls
    /\ pos <= Len(current_rec.suggested_indexes)
    /\ NotYetCreated(current_rec.suggested_indexes[pos], all_indexes_created)
    /\ \E fault \in {"none", "conn", "stmt"} :
       \E stmt \in {current_rec.suggested_indexes[pos]} :
       \E r \in {create_index_on_temp(db, schema_name, stmt, tables, fault)} :
             /\ Gateway("create_index_on_temp", fault, r.raised)
             /\ db' = r.db
             /\ IF r.raised
                THEN /\ exc' = "UnboundLocalError"
                     /\ pc' = "finally"
                     /\ UNCHANGED <<pos, all_indexes_created>>
                ELSE /\ all_indexes_created' =
                          IF r.ret = TRUE THEN Append(all_indexes_created, stmt)
                          ELSE all_indexes_created
                     /\ pos' = pos + 1
                     /\ UNCHANGED <<pc, exc>>
    /\ UNCHANGED <<phase, query, test_recommendations, providers, schemaCount, analysis,
                   original_has_seq_scan, tables, recommendations, provider_used, rec_index,
                   current_rec, attempt, optimization_history, schema_name,
                   final_optimized_query, test_result, result, loopStats>>
    /\ UNCHANGED aiVars
    /\ UNCHANGED directVars

\* lines 271-325 and 368-374: the query is rewritten and run in the sandbox,
\* then the loop decides whether to stop
TestQuery ==
    /\ pc = "index"
    /\ "suggested_indexes" \notin current_rec.nulls
    /\ pos > Len(current_rec.suggested_indexes)
    /\ final_optimized_query' = current_rec.optimized_query
    /\ \E fault \in Faults, meas \in TestMeasurements :
       \E test_query \in
             {RewriteTestQuery(current_rec.optimized_query, tables, schema_name)} :
       \E r \in {execute_explain_analyze(db, test_query, fault, meas)} :
         LET tr == [bound |-> TRUE, success |-> r.success,
                    execution_time |-> r.execution_time, plan |-> r.plan, error |-> r.error]
         IN  /\ Gateway("execute_explain_analyze", fault, r.raised)
             /\ test_result' = tr
             /\ loopStats' = [loopStats EXCEPT !.tests = @ + 1]
             /\ IF r.success /\ ShouldRefine(original_has_seq_scan,
                                             analysis.execution_time, tr, attempt)
                THEN /\ pc' = "schema_info"
                     /\ pos' = 1
                ELSE /\ pc' = "finally"
                     /\ UNCHANGED pos
    /\ UNCHANGED <<phase, query, test_recommendations, providers, db, schemaCount, analysis,
                   original_has_seq_scan, tables, recommendations, provider_used, rec_index,
                   current_rec, attempt, optimization_history, schema_name,
                   all_indexes_created, exc, result>>
    /\ UNCHANGED aiVars
    /\ UNCHANGED directVars

\* lines 336-339: one get_schema_table_info call
SchemaTableInfo ==
    /\ pc = "schema_info"
    /\ pos <= Len(tables)
    /\ \E fault \in {"none", "conn"} :
         LET r == get_schema_table_info(db, schema_name, NameOf(tables[pos]), fault)
         IN  Gateway("get_schema_table_info", fault, r.raised)
    /\ pos' = pos + 1
    /\ UNCHANGED <<pc, phase, query, test_recommendations, providers, db, schemaCount,
                   analysis, original_has_seq_scan, tables, recommendations, provider_used,
                   rec_index, exc, result, loopStats>>
    /\ UNCHANGED loopVars
    /\ UNCHANGED aiVars
    /\ UNCHANGED directVars

\* lines 342-361: the attempt is recorded and get_seq_scan_fix is entered
AskFix ==
    /\ pc = "schema_info"
    /\ pos > Len(tables)
    /\ optimization_history' =
          Append(optimization_history,
                 HistoryEntry(original_has_seq_scan, analysis.execution_time, test_result,
                              attempt, current_rec))
    /\ loopStats' = [loopStats EXCEPT !.refines = @ + 1]
    /\ pc' = "refine"
    /\ AiStart("refine")
    /\ UNCHANGED <<phase, query, test_recommendations, providers, db, faults, schemaCount,
                   analysis, original_has_seq_scan, tables, recommendations, provider_used,
                   rec_index, current_rec, attempt, schema_name, all_indexes_created,
                   final_optimized_query, test_result, pos, exc, result, gw, calls>>
    /\ UNCHANGED directVars

\* lines 362-367: the fix replaces the recommendation, or the loop breaks
FixReturn ==
    /\ pc = "refine"
    /\ aiOut.status \in {"ok", "raised"}
    /\ IF aiOut.status = "ok"
       THEN /\ current_rec' = MergeRec(current_rec, aiOut.value[1], attempt)
            /\ pc' = "loop_head"
       ELSE /\ pc' = "finally"
            /\ UNCHANGED current_rec
    /\ AiReset
    /\ UNCHANGED <<phase, query, test_recommendations, providers, db, faults, schemaCount,
                   analysis, original_has_seq_scan, tables, recommendations, provider_used,
                   rec_index, attempt, optimization_history, schema_name,
                   all_indexes_created, final_optimized_query, test_result, pos, exc, result,
                   gw, calls, loopStats>>
    /\ UNCHANGED directVars

\* lines 375-378: the finally clause drops the schema if a name was generated;
\* an exception that was propagating then leaves optimize
Finally ==
    /\ pc = "finally"
    /\ IF schema_name # None
       THEN \E fault \in {"none", "conn", "stmt"} :
              LET r == drop_temp_schema(db, schema_name, fault)
              IN  /\ Gateway("drop_temp_schema", fault, r.raised)
                  /\ db' = r.db
       ELSE UNCHANGED <<db, faults, gw, calls>>
    /\ IF exc # "none"
       THEN /\ pc' = "done"
            /\ result' = Raised(exc)
       ELSE /\ pc' = "store"
            /\ UNCHANGED result
    /\ UNCHANGED <<phase, query, test_recommendations, providers, schemaCount, analysis,
                   original_has_seq_scan, tables, recommendations, provider_used, rec_index,
                   pos, exc, loopStats>>
    /\ UNCHANGED loopVars
    /\ UNCHANGED aiVars
    /\ UNCHANGED directVars

\* lines 381-399: the results are stored in the recommendation.  Line 382 reads
\* test_result, unbound when no test ran yet in this call; line 385 calls
\* has_seq_scan(None) when the baseline had a seq scan and the last test failed.
Store ==
    /\ pc = "store"
    /\ IF ~test_result.bound
       THEN /\ pc' = "done"
            /\ result' = Raised("UnboundLocalError")
            /\ UNCHANGED <<recommendations, rec_index>>
       ELSE IF original_has_seq_scan /\ test_result.plan = NonePlan
       THEN /\ pc' = "done"
            /\ result' = Raised("AttributeError")
            /\ UNCHANGED <<recommendations, rec_index>>
       ELSE /\ recommendations' =
                 [recommendations EXCEPT ![rec_index] =
                     StoreRec(current_rec, test_result, attempt, optimization_history,
                              original_has_seq_scan, analysis.execution_time,
                              all_indexes_created, final_optimized_query, query)]
            /\ rec_index' = rec_index + 1
            /\ pc' = "rec_start"
            /\ UNCHANGED result
    /\ UNCHANGED <<phase, query, test_recommendations, providers, db, faults, schemaCount,
                   analysis, original_has_seq_scan, tables, provider_used, pos, exc, gw,
                   calls, loopStats>>
    /\ UNCHANGED loopVars
    /\ UNCHANGED aiVars
    /\ UNCHANGED directVars

\* lines 401-422: sort, rank, return
Rank ==
    /\ pc = "rank"
    /\ recommendations' = RankRecs(recommendations)
    /\ result' = Returned(TRUE, None, None, RankRecs(recommendations), provider_used)
    /\ phase' = "Ranked"
    /\ pc' = "done"
    /\ UNCHANGED <<query, test_recommendations, providers, db, faults, schemaCount, analysis,
                   original_has_seq_scan, tables, provider_used, rec_index, pos, exc, gw,
                   calls, loopStats>>
    /\ UNCHANGED loopVars
    /\ UNCHANGED aiVars
    /\ UNCHANGED directVars

Next ==
    \/ Validate
    \/ Baseline
    \/ TableInfo
    \/ AskRecommendations
    \/ AiTryProvider
    \/ AiAllFailed
    \/ RecommendReturn
    \/ RecStart
    \/ AttemptCreateSchema
    \/ NextAttempt
    \/ CloneTable
    \/ IndexesNull
    \/ IndexSkip
    \/ IndexCreate
    \/ TestQuery
    \/ SchemaTableInfo
    \/ AskFix
    \/ FixReturn
    \/ Finally
    \/ Store
    \/ Rank

Spec == Init /\ [][Next]_vars

NextAI == AiTryProvider \/ AiAllFailed

SpecAI == InitAI /\ [][NextAI]_vars

(***************************************************************************)
(* A caller that invokes one method of the services on its own, several    *)
(* times over.                                                             *)
(***************************************************************************)
\* the statements a caller may hand to validate, without the surrounding
\* whitespace and the closing semicolon
QueryBodies ==
    LET sel == <<"SELECT", " ", "c", " ", "FROM", " ", "users">>
        cond(x) == sel \o <<" ", "WHERE", " ">> \o x
    IN  { SubSeq(QUsers, 1, Len(QUsers) - 1),
          <<"select", " ", "c", " ", "from", " ", "users">>,
          <<"WITH", " ", "x", " ", "AS", " ", "(">> \o sel \o <<")", " ", "SELECT", " ",
              "c", " ", "FROM", " ", "x">>,
          <<"with", " ", "x", " ", "AS", " ", "(">> \o sel \o <<")", " ", "select", " ",
              "*", " ", "from", " ", "x">>,
          SubSeq(QDrop, 1, Len(QDrop) - 1),
          <<"drop", " ", "TABLE", " ", "users">>,
          <<"TRUNCATE", " ", "users">>,
          <<"ALTER", " ", "TABLE", " ", "users">>,
          <<"GRANT", " ", "ALL">>,
          <<"REVOKE", " ", "ALL">>,
          <<"DELETE", " ", "FROM", " ", "users">>,
          <<"DELETE", " ", "FROM", " ", "users", " ", "WHERE", " ", "id", "=", "1">>,
          <<"UPDATE", " ", "users", " ", "SET", " ", "c", "=", "1", " ", "WHERE", " ",
            "id", "=", "1">>,
          <<"INSERT", " ", "INTO", " ", "users", " ", "VALUES", " ", "(", "1", ")">>,
          <<"EXPLAIN", " ">> \o sel,
          <<"CREATE", " ", "TABLE", " ", "users">>,
          IdxUsers,
          <<"SELECTED", " ", "FROM", " ", "users">>,
          <<"WITHIN", " ", "users">>,
          sel \o <<";", " ">> \o SubSeq(QDrop, 1, Len(QDrop) - 1),
          cond(<<"c", "=", "'", "DROP", " ", "'">>),
          cond(<<"id", "=", "1", " ", "OR", " ", "id", "=", "2">>),
          cond(<<"id", "=", "1", " ", "or", " ", "id", "=", "2">>),
          cond(<<"c", " ", "LIKE", " ", "'%a'">>),
          cond(<<"c", " ", "NOT", " ", "LIKE", " ", "'%a'">>),
          cond(<<"c", " ", "LIKE", " ", "'a%'">>),
          cond(<<"id", " ", "IN", " ", "(", "1, 2, 3, ... (100 characters)", ")">>),
          cond(<<"id", " ", "IN", "(", "1", ")">>),
          <<>> }

DirectQueries ==
    { lead \o body \o tail : lead \in {<<>>, <<" ">>, <<"\n", " ">>},
                              body \in QueryBodies,
                              tail \in {<<>>, <<";">>, <<";", "\n">>} }

DirectCalls ==
    { [method |-> "has_seq_scan", arg |-> p] : p \in Plans }
    \cup { [method |-> "validate", arg |-> q] : q \in DirectQueries }
    \cup { [method |-> "schema", arg |-> SchemaNames[i]] : i \in 1..2 }

InitDirect ==
    /\ InitCommon
    /\ pc = "direct"
    /\ query = QUsers
    /\ test_recommendations = FALSE
    /\ providers = init_available_providers({"gemini", "groq"})
    /\ aiKind = "idle"
    /\ aiIdx = 0
    /\ aiOut = AiIdle
    /\ invoked \in DirectCalls
    /\ returned = <<>>

\* the variables of optimize other than the database
optimizeVars ==
    <<pc, phase, query, test_recommendations, providers, schemaCount, analysis,
      original_has_seq_scan, tables, recommendations, provider_used, rec_index, pos, exc,
      result, loopStats>>

\* ExecutionPlanAnalyzer.has_seq_scan(plan): no statement of it assigns to the plan
DirectHasSeqScan ==
    /\ pc = "direct"
    /\ invoked.method = "has_seq_scan"
    /\ Len(returned) < MaxDirectCalls
    /\ returned' = Append(returned, has_seq_scan(invoked.arg))
    /\ UNCHANGED <<invoked, db, faults, gw, calls>>
    /\ UNCHANGED optimizeVars
    /\ UNCHANGED loopVars
    /\ UNCHANGED aiVars

\* QueryValidator.validate(query)
DirectValidate ==
    /\ pc = "direct"
    /\ invoked.method = "validate"
    /\ Len(returned) < MaxDirectCalls
    /\ returned' = Append(returned, validate(invoked.arg))
    /\ UNCHANGED <<invoked, db, faults, gw, calls>>
    /\ UNCHANGED optimizeVars
    /\ UNCHANGED loopVars
    /\ UNCHANGED aiVars

\* DBConnector.create_temp_schema(schema_name)
DirectCreateSchema ==
    /\ pc = "direct"
    /\ invoked.method = "schema"
    /\ Len(returned) < MaxDirectCalls
    /\ \E fault \in {"none", "conn"} :
       \E r \in {create_temp_schema(db, invoked.arg, fault)} :
         /\ Gateway("create_temp_schema", fault, r.raised)
         /\ db' = r.db
         /\ returned' = Append(returned, [method |-> "create_temp_schema",
                                          fault |-> fault, value |-> r.ret])
    /\ UNCHANGED invoked
    /\ UNCHANGED optimizeVars
    /\ UNCHANGED loopVars
    /\ UNCHANGED aiVars

\* DBConnector.drop_temp_schema(schema_name)
DirectDropSchema ==
    /\ pc = "direct"
    /\ invoked.method = "schema"
    /\ Len(returned) < MaxDirectCalls
    /\ \E fault \in {"none", "conn"} :
       \E r \in {drop_temp_schema(db, invoked.arg, fault)} :
         /\ Gateway("drop_temp_schema", fault, r.raised)
         /\ db' = r.db
         /\ returned' = Append(returned, [method |-> "drop_temp_schema",
                                          fault |-> fault, value |-> r.ret])
    /\ UNCHANGED invoked
    /\ UNCHANGED optimizeVars
    /\ UNCHANGED loopVars
    /\ UNCHANGED aiVars

NextDirect ==
    \/ DirectHasSeqScan
    \/ DirectValidate
    \/ DirectCreateSchema
    \/ DirectDropSchema

SpecDirect == InitDirect /\ [][NextDirect]_vars

(***************************************************************************)
(* A run against a database and providers that never fail, where a         *)
(* provider may take forever to answer.  optimize runs in one thread: its  *)
(* own steps are taken as soon as they can, while the SDK calls of lines   *)
(* 341-372 and 482-509 of gemini_client.py set no timeout, so nothing      *)
(* makes AiTryProvider happen.                                             *)
(***************************************************************************)
InitSlow ==
    /\ InitState(MaxFaults)
    /\ invoked = NoDirectCall
    /\ returned = <<>>
    /\ pc = "validate"
    /\ query \in Queries
    /\ test_recommendations \in BOOLEAN
    /\ providers = init_available_providers({"gemini", "groq"})
    /\ aiKind = "idle"
    /\ aiIdx = 0
    /\ aiOut = AiIdle

\* the steps of the optimizer's own thread
LocalStep ==
    \/ Validate
    \/ Baseline
    \/ TableInfo
    \/ AskRecommendations
    \/ RecommendReturn
    \/ RecStart
    \/ AttemptCreateSchema
    \/ NextAttempt
    \/ CloneTable
    \/ IndexesNull
    \/ IndexSkip
    \/ IndexCreate
    \/ TestQuery
    \/ SchemaTableInfo
    \/ AskFix
    \/ FixReturn
    \/ Finally
    \/ Store
    \/ Rank

NextSlow == LocalStep \/ AiTryProvider

SpecSlow == InitSlow /\ [][NextSlow]_vars /\ WF_vars(LocalStep)

(***************************************************************************)
(* Properties of a run of optimize                                         *)
(***************************************************************************)
Finished == pc = "done"
Recs == result.recommendations
Tested(r) == "test_result" \in r.keys

\* C1: once a recommendation's loop is left, and once the run has ended, no
\* sandbox schema created during the run exists in the database.
SandboxSchemasDropped ==
    pc \in {"store", "rec_start", "rank", "done"} => db.schemas = {}

\* C2: the indexes outside the sandbox schemas are at every moment those that
\* existed before the run (the model holds no other object outside the sandbox
\* that a statement of the run could write).
SourceDatabaseUnchanged == db.origIndexes = InitialOrigIndexes

\* C3: a run whose baseline and initial provider call succeeded ends by
\* returning success = true with every recommendation in the ranked list.
LoopErrorsNeverAbort ==
    (Finished /\ phase \in {"TestingEach", "Ranked"})
        => /\ result.kind = "returned"
           /\ result.success
           /\ Len(Recs) = Len(recommendations)
           /\ \A i \in 1..Len(Recs) : Recs[i].rank = i

\* C4: in a call of get_optimization_recommendations or get_seq_scan_fix the
\* providers invoked are, in order, the first configured providers in priority
\* order; each but the last invoked failed; a result comes from the last one
\* invoked, whose response had the expected shape and after which none is
\* invoked; the call raises exactly when every configured provider failed,
\* and then carries the last error.
ProvidersTriedInPriorityOrder ==
    LET n == Len(aiLog)
        expected == IF aiKind = "initial" THEN "array" ELSE "object"
    IN  /\ providers = FilterSeq(<<"gemini", "deepseek", "groq">>,
                                 {providers[k] : k \in 1..Len(providers)})
        /\ n <= Len(providers)
        /\ \A k \in 1..n : aiLog[k].provider = providers[k]
        /\ \A k \in 1..(n - 1) : ~aiLog[k].ok
        /\ aiOut.status = "ok"
             => /\ n >= 1 /\ aiLog[n].ok /\ aiLog[n].shape = expected
                /\ aiOut.provider = aiLog[n].provider
        /\ aiOut.status = "raised"
             => /\ n = Len(providers)
                /\ \A k \in 1..n : ~aiLog[k].ok
                /\ aiOut.error = aiLog[n].error
        /\ (aiOut.status = "pending" /\ n >= 1) => ~aiLog[n].ok
        /\ (aiOut.status = "pending" /\ n = Len(providers)) => ENABLED AiAllFailed

\* C4 happens: the third provider answers after the first two failed
ThirdProviderAnswers ==
    /\ pc = "ai_call"
    /\ aiOut.status = "ok"
    /\ Len(aiLog) = 3
    /\ aiOut.provider = "groq"

\* C5: the returned list is in descending order of the pair
\* (seq_scan_eliminated, improvement_percentage), absent keys counting as
\* (False, 0), and the rank at position i (from 1) is i.
RankedDescending ==
    LET elim(r) == "seq_scan_eliminated" \in r.keys /\ r.seq_scan_eliminated
        impr(r) == IF "improvement_percentage" \in r.keys
                   THEN r.improvement_percentage ELSE 0
    IN  (Finished /\ result.kind = "returned" /\ result.success)
          => /\ \A i \in 1..Len(Recs) : Recs[i].rank = i
             /\ \A i, j \in 1..Len(Recs) :
                  i < j => \/ elim(Recs[i]) /\ ~elim(Recs[j])
                           \/ elim(Recs[i]) = elim(Recs[j])
                              /\ impr(Recs[i]) >= impr(Recs[j])

\* C5 happens: a recommendation that eliminated the scan with 20% is returned
\* above one that did not with 60%
EliminatedOutranksFaster ==
    /\ Finished /\ result.kind = "returned" /\ Len(Recs) >= 2
    /\ Tested(Recs[1]) /\ Recs[1].seq_scan_eliminated
    /\ Recs[1].improvement_percentage = 20
    /\ Tested(Recs[2]) /\ ~Recs[2].seq_scan_eliminated
    /\ Recs[2].improvement_percentage = 60

\* the step that runs the query in the sandbox
TestStep == loopStats'.tests = loopStats.tests + 1
\* the goals of the loop, read off the result of the test just run
GoalsMet ==
    /\ ~original_has_seq_scan \/ ~has_seq_scan(test_result'.plan)
    /\ ImprovementPct(analysis.execution_time, test_result'.execution_time) >= 50

RefinementStep ==
    /\ (TestStep /\ test_result'.success /\ GoalsMet)
          => pc' = "finally" /\ loopStats'.refines = loopStats.refines
    /\ (TestStep /\ test_result'.success /\ ~GoalsMet /\ attempt < MaxAttempts)
          => pc' = "schema_info"
    /\ (TestStep /\ test_result'.success /\ attempt >= MaxAttempts) => pc' = "finally"
    /\ TestStep => /\ loopStats.refines = attempt - 1
                   /\ final_optimized_query' = current_rec.optimized_query
    /\ loopStats'.refines # loopStats.refines
          => \/ loopStats'.refines = 0
             \/ /\ pc = "schema_info" /\ pc' = "refine"
                /\ loopStats'.refines = attempt
                /\ aiKind' = "refine" /\ aiOut'.status = "pending"
    /\ (pc = "refine" /\ pc' = "loop_head")
          => /\ aiOut.status = "ok"
             /\ current_rec'.optimized_query = aiOut.value[1].optimized_query
             /\ current_rec'.suggested_indexes = aiOut.value[1].suggested_indexes
    /\ current_rec' # current_rec => pc \in {"rec_start", "refine"}
    /\ (pc = "store" /\ pc' = "rec_start")
          => recommendations'[rec_index].optimization_attempts = attempt

\* C6: a successful test that meets the goals (no sequential scan in the
\* baseline or none in the tested plan, and improvement >= 50) ends the loop
\* with no refinement request; one that does not, at an attempt k below the
\* maximum, is followed by one refinement request, the k-th of the loop, whose
\* answer becomes the recommendation that attempt k+1 tests; the recorded
\* optimization_attempts is the number of the last attempt.
RefinementRule == [][RefinementStep]_vars

\* C6 happens: the first recommendation met the goals at attempt 1 (scan
\* eliminated, 60%) with no refinement, the second was refined once
FirstStopsSecondRefined ==
    /\ pc = "rec_start" /\ rec_index = 3
    /\ recommendations[1].optimization_attempts = 1
    /\ recommendations[1].optimization_history = <<>>
    /\ recommendations[1].seq_scan_eliminated
    /\ recommendations[1].improvement_percentage = 60
    /\ recommendations[2].optimization_attempts = 2
    /\ Len(recommendations[2].optimization_history) = 1

LoopBounds ==
    /\ attempt <= MaxAttempts
    /\ loopStats.tests <= MaxAttempts
    /\ loopStats.tests <= attempt
    /\ loopStats.refines <= MaxAttempts - 1
    /\ Len(recommendations) <= MaxRecs
    /\ rec_index <= MaxRecs + 1
    /\ schemaCount <= MaxRecs
    /\ \A i \in 1..Len(recommendations) :
         Tested(recommendations[i]) => recommendations[i].optimization_attempts <= MaxAttempts

\* the position of a state in a run: it grows with every step and is bounded
PcRank ==
    CASE pc = "validate" -> 0 [] pc = "baseline" -> 1 [] pc = "table_info" -> 2
      [] pc = "recommend" -> 3 [] pc = "rec_start" -> 0 [] pc = "loop_head" -> 0
      [] pc = "clone" -> 1 [] pc = "index" -> 2 [] pc = "schema_info" -> 3
      [] pc = "refine" -> 4 [] pc = "finally" -> 5 [] pc = "store" -> 6
      [] OTHER -> 0
RunPosition ==
    IF pc = "done" THEN 100000
    ELSE IF pc = "rank" THEN 99999
    ELSE rec_index * 1000
         + (IF pc = "rec_start" THEN 0
            ELSE IF pc = "loop_head" THEN attempt + 1 ELSE attempt) * 100
         + PcRank * 10
         + (IF pc \in {"clone", "index", "schema_info", "table_info"} THEN pos ELSE 0)
         + (IF aiOut.status = "pending" THEN aiIdx
            ELSE IF aiOut.status = "idle" THEN 0 ELSE 5)

\* the guard of some action of Next holds (the guards, position by position)
StepPossible ==
    \/ pc \in {"validate", "baseline", "table_info", "rec_start", "index", "schema_info",
                "finally", "store", "rank"}
    \/ /\ pc \in {"recommend", "refine"}
       /\ \/ aiOut.status \in {"ok", "raised"}
          \/ aiOut.status = "pending" /\ aiIdx >= 1
    \/ /\ pc = "loop_head"
       /\ schema_name # None \/ (attempt < MaxAttempts /\ schemaCount < Len(SchemaNames))
    \/ pc = "clone" /\ pos <= Len(tables)

\* C7: for every recommendation the sandbox tests and the recorded
\* optimization_attempts are at most max_attempts, the refinement requests at
\* most max_attempts - 1, and at most three recommendations are tested; the
\* run ends: while it has not, a step is possible, and every step moves the
\* run forward through a bounded range of positions.
LoopBoundedAndTerminates ==
    /\ []LoopBounds
    /\ [](Finished \/ StepPossible)
    /\ [](RunPosition <= 100000)
    /\ [][RunPosition' > RunPosition]_vars

\* C7 happens: the third recommendation used every attempt
ThirdRecommendationExhausted ==
    /\ rec_index = 3 /\ pc = "finally"
    /\ attempt = MaxAttempts
    /\ loopStats.tests = MaxAttempts
    /\ loopStats.refines = MaxAttempts - 1

\* C8: optimize ends by returning a result, never by raising; a result with
\* success = false carries the stage of the phase that failed; a run that
\* reached the testing phase does not return success = false.
AlwaysReturnsResult ==
    Finished =>
      /\ result.kind = "returned"
      /\ ~result.success
           => /\ result.stage \in {"validation", "execution", "recommendations"}
              /\ result.stage = "validation" <=> ~validate(query).is_valid
              /\ result.stage = "execution" <=> (validate(query).is_valid /\ ~analysis.success)
      /\ phase \in {"TestingEach", "Ranked"} => result.success

PhaseOrder == <<"Validating", "BaselineExecuting", "Recommending", "TestingEach", "Ranked">>
PhaseRank(p) == CHOOSE k \in 1..Len(PhaseOrder) : PhaseOrder[k] = p

AbortStopsLaterPhases ==
    /\ (DangerousErrors(query) # <<>> \/ ~StartsWithSelectOrWith(query))
          => /\ calls.db = 0 /\ calls.ai = 0 /\ calls.schemas = 0
             /\ pc \in {"validate", "done"}
    /\ (phase = "Aborted" /\ result.stage = "validation")
          => calls.db = 0 /\ calls.ai = 0 /\ calls.schemas = 0
    /\ (phase = "Aborted" /\ result.stage = "execution")
          => calls.ai = 0 /\ calls.schemas = 0 /\ db.schemas = {}
    /\ (phase = "Aborted" /\ result.stage = "recommendations")
          => calls.schemas = 0 /\ db.schemas = {}
    /\ phase = "Validating" => calls.db = 0 /\ calls.ai = 0
    /\ phase = "BaselineExecuting" => calls.ai = 0 /\ calls.schemas = 0
    /\ phase = "Recommending" => calls.schemas = 0
    /\ phase \in {"Aborted", "Ranked"} => Finished

PhaseStep ==
    phase' # phase
      => \/ phase' = "Aborted" /\ phase \in {"Validating", "BaselineExecuting", "Recommending"}
         \/ /\ phase' # "Aborted" /\ phase # "Aborted"
            /\ PhaseRank(phase') > PhaseRank(phase)
            /\ phase' = "Recommending" => phase = "BaselineExecuting"
            /\ phase' = "BaselineExecuting" => phase = "Validating"
            /\ phase' = "TestingEach" => phase = "Recommending"

\* C9: the phases are entered only in the order Validating, BaselineExecuting,
\* Recommending, TestingEach, Ranked; a rejected query makes no database and
\* no provider call; a failed baseline makes no provider call and creates no
\* sandbox schema; when all providers fail no sandbox schema is created.
PhasesInOrder == []AbortStopsLaterPhases /\ [][PhaseStep]_vars

\* C9 happens: both providers failed and the run was aborted
AbortedAtRecommendations ==
    /\ Finished /\ phase = "Aborted"
    /\ result.stage = "recommendations"
    /\ calls.ai = 2 /\ calls.db > 0

\* C10: no gateway method raises: each call returns its failure value.
GatewayNeverRaises == ~gw.raised

\* C11: a gateway call opens at most one connection and closes it before it
\* returns or raises, so no connection is open between two gateway calls.
NoConnectionLeak == calls.open = 0 /\ gw.opened <= 1

\* C11 happens: a call whose statement was cancelled had opened a connection
ConnectionClosedAfterTimeout ==
    /\ gw.method = "execute_explain_analyze" /\ gw.fault = "timeout"
    /\ gw.opened = 1 /\ calls.open = 0

\* C12: a statement cancelled by the statement timeout makes
\* execute_explain_analyze return the 'Query exceeded timeout' failure.
TimeoutReportedAsTimeout ==
    (gw.method = "execute_explain_analyze" /\ gw.fault = "timeout")
       => IF phase = "Aborted"
          THEN result.error = "Query exceeded timeout"
          ELSE test_result.error = "Query exceeded timeout"

\* C13: a refinement call that is outstanding while a sandbox schema exists
\* does not keep the schema: the schema is eventually dropped whether or not
\* the provider ever answers.
SlowProviderStillCleansUp ==
    (pc = "refine" /\ aiOut.status = "pending" /\ db.schemas # {}) ~> (db.schemas = {})

\* the list with rank = position written into each record
WithRanks(recs) ==
    [i \in 1..Len(recs) |-> [recs[i] EXCEPT !.rank = i, !.keys = @ \cup {"rank"}]]

UntestedStep ==
    ~test_recommendations =>
        /\ db' = db
        /\ calls'.schemas = 0
        /\ loopStats' = [tests |-> 0, refines |-> 0]
        /\ gw'.method \in {None, "execute_explain_analyze", "get_table_info"}
        /\ calls'.ai # calls.ai => pc = "recommend" /\ aiKind = "initial"
        /\ pc = "recommend" /\ aiOut.status = "ok"
              => pc' = "rank" /\ recommendations' = aiOut.value
        /\ pc = "rank"
              => /\ pc' = "done"
                 /\ analysis' = analysis
                 /\ result'.success
                 /\ result'.recommendations = WithRanks(recommendations)

\* C14: with test_recommendations false no schema is created, no table cloned,
\* no index created, no test query run and no refinement asked; the result
\* holds the provider's recommendations in the provider's order, changed only
\* in their rank.
UntestedRunOnlyRanks == [][UntestedStep]_vars

\* C14 happens: an untested run returned several recommendations
UntestedRunReturnedSeveral ==
    /\ Finished /\ ~test_recommendations /\ result.success
    /\ Len(result.recommendations) >= 2
    /\ result.recommendations[1] # [result.recommendations[2] EXCEPT !.rank = 1]

\* the root node of a plan document
RootOf(plan) == IF "Plan" \in DOMAIN plan THEN plan.Plan ELSE plan

\* the positions of the nodes of a tree: sequences of child indexes
TreePaths == UNION { [1..n -> 1..(MaxNodes - 1)] : n \in 0..(MaxNodes - 1) }

RECURSIVE NodeAt(_, _)
\* the node reached from node along path, or NonePlan when the path leaves the tree
NodeAt(node, path) ==
    IF path = <<>> THEN node
    ELSE IF Head(path) > Len(node.plans) THEN NonePlan
         ELSE NodeAt(node.plans[Head(path)], Tail(path))

SomeNodeIsSeqScan(plan) ==
    \E path \in TreePaths : NodeAt(RootOf(plan), path).type = "Seq Scan"

\* C15: has_seq_scan answers true exactly when some node of the plan, the root
\* or a descendant through 'Plans' at any depth, is a 'Seq Scan'; it leaves
\* the plan as it was and answers the same when asked again.
HasSeqScanFindsAnyNode ==
    /\ [](invoked.method = "has_seq_scan" =>
             \A k \in 1..Len(returned) : returned[k] = SomeNodeIsSeqScan(invoked.arg))
    /\ [][invoked.method = "has_seq_scan" => invoked' = invoked]_vars

\* C15 happens: the only Seq Scan is a child of the root's second child, and
\* the call was repeated
SeqScanFoundAtDepthTwo ==
    /\ pc = "direct" /\ invoked.method = "has_seq_scan"
    /\ invoked.arg = Node("Hash Join",
                          <<Node("Index Scan", <<>>),
                            Node("Hash Join", <<Node("Seq Scan", <<>>)>>)>>)
    /\ returned = <<TRUE, TRUE, TRUE>>

\* the text of the query after its leading whitespace opens, in any case,
\* with the letters SELECT or WITH
OpensWithSelectOrWith(q) ==
    \E j \in 1..Len(q) :
        /\ \A k \in 1..(j - 1) : q[k] \in {" ", "\n"}
        /\ q[j] \in {"SELECT", "select", "SELECTED", "WITH", "with", "WITHIN"}

\* one of the words the dangerous patterns look for is followed by whitespace
DangerousWordPresent(q) ==
    \E i \in 1..(Len(q) - 1) :
        /\ Upper(q[i]) \in {"DROP", "TRUNCATE", "ALTER", "GRANT", "REVOKE"}
        /\ q[i + 1] \in {" ", "\n"}

OnlySelectMessage == "Only SELECT queries and CTEs are supported for analysis"
InSeq(x, seq) == \E k \in 1..Len(seq) : seq[k] = x

ValidateVerdict(q, r) ==
    /\ r.is_valid = (r.errors = <<>>)
    /\ r.is_valid => OpensWithSelectOrWith(q) /\ ~DangerousWordPresent(q)
    /\ ~OpensWithSelectOrWith(q)
          => InSeq(OnlySelectMessage, r.errors) /\ ~InSeq(OnlySelectMessage, r.warnings)
    /\ DangerousWordPresent(q) => ~r.is_valid
    /\ \A k \in 1..Len(r.warnings) : ~InSeq(r.warnings[k], r.errors)
    /\ q = QUsers => /\ r.is_valid
                     /\ r.warnings = <<"Selecting all columns (SELECT *) can be inefficient">>
    /\ q = QDrop => ~r.is_valid

\* C16: validate accepts a query exactly when it found no error; that takes a
\* text opening with SELECT or WITH after trimming, in any case, and no
\* dangerous pattern; any other opening is an error and not a warning, and
\* the warnings have no part in the verdict.
ValidateAcceptsOnlyCleanSelects ==
    invoked.method = "validate" =>
        \A k \in 1..Len(returned) : ValidateVerdict(invoked.arg, returned[k])

\* C16 happens: a query with leading whitespace and an OR warning is accepted
WarnedQueryAccepted ==
    /\ invoked.method = "validate" /\ Len(returned) > 0
    /\ returned[1].is_valid
    /\ returned[1].warnings = <<"OR conditions may prevent index optimization">>
    /\ invoked.arg[1] = "\n"

RequiredFields ==
    {"type", "description", "optimized_query", "suggested_indexes", "expected_improvement"}

\* C17: every recommendation the provider component returns has its required
\* fields set and not null, whatever fields the accepted response left out or
\* gave as null; the initial call returns at most three recommendations and
\* the refinement call exactly one.
ProviderRecsPopulated ==
    aiOut.status = "ok" =>
        /\ \A i \in 1..Len(aiOut.value) :
              /\ RequiredFields \subseteq aiOut.value[i].keys
              /\ aiOut.value[i].nulls \cap RequiredFields = {}
        /\ aiKind = "initial" => Len(aiOut.value) <= MaxRecs
        /\ aiKind = "refine" => Len(aiOut.value) = 1

SchemaCallStep ==
    (invoked.method = "schema" /\ Len(returned') = Len(returned) + 1) =>
        LET this == returned'[Len(returned')]
        IN  /\ ~gw'.raised
            /\ this.fault = "none" =>
                  /\ this.value = TRUE
                  /\ (invoked.arg \in db'.schemas) = (this.method = "create_temp_schema")
                  /\ (invoked.arg \in db.schemas) = (this.method = "create_temp_schema")
                        => db' = db

\* C18: with the database reachable, dropping a schema that is not there and
\* creating a schema that is there both return success without raising and
\* leave the database as it was, so a second drop changes nothing.
SchemaCallsIdempotent == [][SchemaCallStep]_vars

\* C18 happens: a schema was created, dropped, and dropped again
SchemaDroppedTwice ==
    /\ invoked.method = "schema" /\ Len(returned) = 3
    /\ returned[1] = [method |-> "create_temp_schema", fault |-> "none", value |-> TRUE]
    /\ returned[2] = [method |-> "drop_temp_schema", fault |-> "none", value |-> TRUE]
    /\ returned[3] = returned[2]
    /\ db = InitDb

\* C19: the optimization_history stored on a tested recommendation has one
\* entry per attempt taken, entry k recording attempt k: its length equals
\* optimization_attempts.
HistoryHasEntryPerAttempt ==
    (Finished /\ result.success) =>
        \A i \in 1..Len(Recs) :
            Tested(Recs[i]) =>
                /\ Len(Recs[i].optimization_history) = Recs[i].optimization_attempts
                /\ \A k \in 1..Len(Recs[i].optimization_history) :
                      Recs[i].optimization_history[k].attempt = k

\* C20: seq_scan_eliminated of a tested recommendation is true when the
\* baseline had no sequential scan or the final tested plan has none, and
\* false only when the baseline had one and the final tested plan has one.
EliminatedMatchesStoppingCondition ==
    (Finished /\ result.success) =>
        \A i \in 1..Len(Recs) :
            (Tested(Recs[i]) /\ Recs[i].test_result.bound /\ Recs[i].test_result.success) =>
                Recs[i].seq_scan_eliminated =
                    (~original_has_seq_scan \/ ~has_seq_scan(Recs[i].test_result.plan))

\* ---------------------------------------------------------------------------
\* Results recorded on a recommendation (optimizer.py 296-317, 380-399)

\* the improvements observed by the tests of a stored recommendation that were
\* followed by a refinement: each is kept in its optimization_history entry
EarlierImprovements(r) ==
    { r.optimization_history[j].improvement_percentage :
        j \in 1..Len(r.optimization_history) }

\* C21: the improvement_percentage stored on a tested recommendation is that of
\* its best successful test: no earlier successful test of the same
\* recommendation observed a higher improvement than the one stored.
BestResultRecorded ==
    (Finished /\ result.kind = "returned" /\ result.success) =>
        \A i \in 1..Len(Recs) :
            (Tested(Recs[i]) /\ "improvement_percentage" \in Recs[i].keys) =>
                \A earlier \in EarlierImprovements(Recs[i]) :
                    Recs[i].improvement_percentage >= earlier

\* the recommendation stored by the Store step that has just been taken
JustStored == recommendations[rec_index - 1]

\* C22: a recommendation whose create_temp_schema call failed (no test was run
\* for it) is stored as untested: it carries no test_result, no
\* improvement_percentage and no tested_execution_time.
SchemaFailureLeavesUntested ==
    (pc = "rec_start" /\ rec_index > 1 /\ loopStats.tests = 0) =>
        /\ ~Tested(JustStored)
        /\ "improvement_percentage" \notin JustStored.keys
        /\ "tested_execution_time" \notin JustStored.keys

\* ---------------------------------------------------------------------------
\* Failures inside the loop (optimizer.py 263-269, 295-306, 354-367)

\* C23: a create_index_on_temp call that cannot create its index (invalid DDL,
\* or no connection for the call) is non-fatal: the loop goes on to the next
\* statement or to the test, no exception is pending, and the statement is not
\* among the indexes applied.
IndexFailureNonFatal ==
    (gw.method = "create_index_on_temp" /\ gw.fault # "none") =>
        /\ pc = "index"
        /\ exc = "none"
        /\ ~InSeq(current_rec.suggested_indexes[pos - 1], all_indexes_created)

\* the last test run for the current recommendation failed
LastTestFailed == loopStats.tests > 0 /\ test_result.bound /\ ~test_result.success

\* C24: a failed sandbox test at attempt k ends the loop there and the
\* recommendation is recorded: optimize does not fail, and the stored
\* recommendation has optimization_attempts = k with the indexes applied and
\* the history recorded up to attempt k.
TestFailureKeepsRecord ==
    /\ (pc = "done" /\ LastTestFailed) => result.kind = "returned"
    /\ (pc = "rec_start" /\ rec_index > 1 /\ LastTestFailed) =>
          /\ JustStored.optimization_attempts = attempt
          /\ JustStored.all_indexes_applied = all_indexes_created
          /\ JustStored.optimization_history = optimization_history

\* ---------------------------------------------------------------------------
\* Index statements of one recommendation (optimizer.py 242-269, 388)

\* a step that calls create_index_on_temp
IndexCallStep == calls'.db = calls.db + 1 /\ gw'.method = "create_index_on_temp"
\* the call of the step created an index in the database
IndexAdded ==
    (db'.sbIndexes \cup db'.origIndexes) # (db.sbIndexes \cup db.origIndexes)

NoDuplicates(seq) ==
    \A j, k \in 1..Len(seq) : seq[j] = seq[k] => j = k

IndexesAccumulateStep ==
    /\ IndexCallStep =>
         ~InSeq(current_rec.suggested_indexes[pos], all_indexes_created)
    /\ (IndexCallStep /\ IndexAdded) =>
         all_indexes_created' =
            Append(all_indexes_created, current_rec.suggested_indexes[pos])
    /\ ~(IndexCallStep /\ IndexAdded) =>
         \/ all_indexes_created' = all_indexes_created
         \/ pc = "rec_start" /\ all_indexes_created' = <<>>
    /\ (pc = "store" /\ pc' = "rec_start") =>
         recommendations'[rec_index].all_indexes_applied = all_indexes_created

\* C25: within one recommendation's loop create_index_on_temp is never called
\* for a statement that is already among the indexes applied; the list grows by
\* exactly the statement of each call that created an index, in order, over
\* all attempts, is emptied only when the next recommendation starts, holds no
\* statement twice, and is what is stored as all_indexes_applied.
IndexesDedupedAndAccumulated ==
    [](NoDuplicates(all_indexes_created)) /\ [][IndexesAccumulateStep]_vars

\* a recommendation returned after two attempts with the index of the first
\* attempt, passed over in the second, followed by the one the second added
IndexesOfTwoAttemptsKept ==
    /\ Finished /\ result.kind = "returned"
    /\ \E i \in 1..Len(Recs) :
         /\ Tested(Recs[i])
         /\ Recs[i].optimization_attempts = 2
         /\ Recs[i].all_indexes_applied = <<IdxUsers, IdxUsers2>>

\* ---------------------------------------------------------------------------
\* Sandbox rewriting (db_connector.py 325-358; optimizer.py 264-296)

\* the statement names, after ON, a table the orchestrator passed
NamesSourceTable(ref, source_tables) ==
    \E k \in 1..Len(source_tables) :
        \/ ref = source_tables[k]
        \/ ~IsQualified(ref) /\ NameOf(source_tables[k]) = NameOf(ref)

\* C26: the statement create_index_on_temp executes for an index on one of the
\* source tables passed to it, schema-qualified or not, names that table as
\* <sandbox>.t after ON.
IndexStatementTargetsSandbox ==
    (/\ pc = "index"
     /\ "suggested_indexes" \notin current_rec.nulls
     /\ pos <= Len(current_rec.suggested_indexes)) =>
        LET stmt == current_rec.suggested_indexes[pos]
            target == ParseCreateIndex(stmt)
            executed == ParseCreateIndex(RewriteIndexStatement(schema_name, stmt, tables))
        IN  (target.ok /\ NamesSourceTable(target.ref, tables)) =>
                executed.ref = <<schema_name, ".", NameOf(target.ref)>>

\* the query that the test of the current attempt is about to execute
NextTestQuery == RewriteTestQuery(current_rec.optimized_query, tables, schema_name)

\* C27: the query executed by a sandbox test of a recommendation whose
\* optimized query reads the tables of the original query (bare names followed
\* by a space, a newline, a semicolon or the end of the text, or
\* schema-qualified names) reads sandbox copies only, no original table.
TestQueryReadsSandboxOnly ==
    (/\ pc = "index"
     /\ "suggested_indexes" \notin current_rec.nulls
     /\ pos > Len(current_rec.suggested_indexes)
     /\ extract_tables_set(current_rec.optimized_query) \subseteq extract_tables_set(query)) =>
        \A ref \in QueryRefs(db, NextTestQuery) : ref.sandbox /\ ref.schema = schema_name

\* ---------------------------------------------------------------------------
\* One sandbox per recommendation (optimizer.py 234-378; db_connector.py 249-309)

\* C28: when a recommendation's loop creates indexes and runs tests, every
\* table extracted from the original query has been cloned into the
\* recommendation's schema: all clones precede the first index creation and
\* the first test.
ClonesPrecedeIndexAndTest ==
    (pc = "index" /\ schema_name # None) =>
        \A k \in 1..Len(tables) : <<schema_name, NameOf(tables[k])>> \in db.sbTables

\* C29: recommendations are tested one at a time: at every moment of a run at
\* most one sandbox schema created by it exists (the schema of one
\* recommendation is dropped before the next one's is created).
AtMostOneSandboxSchema == Cardinality(db.schemas) <= 1

\* ---------------------------------------------------------------------------
\* The annotations of a tested recommendation (optimizer.py 263-303, 380-391)

\* the state right after a sandbox test of the current recommendation
TestJustRun ==
    /\ gw.method = "execute_explain_analyze" /\ loopStats.tests > 0
    /\ pc \in {"schema_info", "finally"} /\ schema_name # None

\* the names of the indexes that exist in a sandbox schema
SandboxIndexNames(schema) == { x[3] : x \in { y \in db.sbIndexes : y[1] = schema } }

\* the names of the indexes a list of statements declares
DeclaredIndexNames(stmts) == { ParseCreateIndex(stmts[k]).name : k \in 1..Len(stmts) }

\* a stored test_result comes from a test of the recommendation it is stored on
StoredResultIsOwn ==
    (pc = "rec_start" /\ rec_index > 1 /\ Tested(JustStored)) => loopStats.tests > 0

\* at the moment of a test the sandbox holds exactly the indexes applied
SandboxHoldsAppliedIndexes ==
    TestJustRun => SandboxIndexNames(schema_name) = DeclaredIndexNames(all_indexes_created)

\* the stored query annotations agree with each other and with the test
StoredQueryAnnotationsAgree ==
    (pc = "rec_start" /\ rec_index > 1 /\ Tested(JustStored) /\ loopStats.tests > 0) =>
        /\ JustStored.final_optimized_query = JustStored.optimized_query
        /\ JustStored.final_optimized_query = final_optimized_query
        /\ JustStored.query_was_rewritten = (JustStored.final_optimized_query # query)
        /\ JustStored.all_indexes_applied = all_indexes_created

\* C30: the annotations stored on a recommendation describe one test of that
\* recommendation: its test_result comes from a test run for it, the tested
\* query is its final_optimized_query (equal to its optimized_query),
\* query_was_rewritten tells whether that differs from the original query, and
\* when the test ran the sandbox held exactly the indexes of all_indexes_applied.
AnnotationsDescribeOneTest ==
    StoredResultIsOwn /\ SandboxHoldsAppliedIndexes /\ StoredQueryAnnotationsAgree

====
